---------------------------- MODULE Spec2Model ----------------------------
(***************************************************************************)
(* Model of gpu_gaming_advisor.fps_predictor.FPSPredictor: name            *)
(* resolution against the built-in tables, predict, and the grid search    *)
(* find_optimal_settings.                                                  *)
(*                                                                         *)
(* Python floats are IEEE-754 binary64.  They are modelled exactly: a      *)
(* positive normal double is a record [m, e] standing for m * 2^e with     *)
(* 2^52 <= m < 2^53, the significand m kept as four 14-bit limbs (least    *)
(* significant first) because the checker's integers are 32 bits wide.     *)
(* Every product is rounded to nearest, ties to even, as the hardware      *)
(* does; int() truncates.                                                  *)
(***************************************************************************)
EXTENDS Integers, Sequences, FiniteSets, TLC

-----------------------------------------------------------------------------
(* Natural numbers wider than 32 bits: tuples of limbs, base 2^14, least   *)
(* significant limb first.                                                 *)

LimbBits == 14
LimbBase == 2^LimbBits

Limb(x, j) == IF j \in 1..Len(x) THEN x[j] ELSE 0

\* The product of two four-limb numbers, eight limbs (column sums with the
\* carry of the column below; each stays under 2^31).
Mul4(a, b) ==
    LET c1 == a[1] * b[1]
        c2 == a[1] * b[2] + a[2] * b[1] + c1 \div LimbBase
        c3 == a[1] * b[3] + a[2] * b[2] + a[3] * b[1] + c2 \div LimbBase
        c4 == a[1] * b[4] + a[2] * b[3] + a[3] * b[2] + a[4] * b[1]
                + c3 \div LimbBase
        c5 == a[2] * b[4] + a[3] * b[3] + a[4] * b[2] + c4 \div LimbBase
        c6 == a[3] * b[4] + a[4] * b[3] + c5 \div LimbBase
        c7 == a[4] * b[4] + c6 \div LimbBase
    IN  <<c1 % LimbBase, c2 % LimbBase, c3 % LimbBase, c4 % LimbBase,
          c5 % LimbBase, c6 % LimbBase, c7 % LimbBase, c7 \div LimbBase>>

\* n * 2^s as six limbs, for 0 < n < 2^9 and s < 64.
ShiftLeft(n, s) ==
    LET k == s \div LimbBits
        v == n * 2^(s % LimbBits)
    IN  [j \in 1..6 |-> IF j = k + 1 THEN v % LimbBase
                        ELSE IF j = k + 2 THEN v \div LimbBase
                        ELSE 0]

\* Quotient (four limbs) and remainder of a six-limb x by a small d, the
\* quotient being below 2^56: long division from the top limb down.
DivSmall(x, d) ==
    LET t6 == x[6]
        t5 == (t6 % d) * LimbBase + x[5]
        t4 == (t5 % d) * LimbBase + x[4]
        t3 == (t4 % d) * LimbBase + x[3]
        t2 == (t3 % d) * LimbBase + x[2]
        t1 == (t2 % d) * LimbBase + x[1]
    IN  [q |-> <<t1 \div d, t2 \div d, t3 \div d, t4 \div d>>, r |-> t1 % d]

\* x \div 2^s, four limbs.
ShiftRight(x, s) ==
    LET k == s \div LimbBits
        b == s % LimbBits
    IN  [i \in 1..4 |-> (Limb(x, k + i) \div 2^b)
                          + (Limb(x, k + i + 1) % 2^b) * 2^(LimbBits - b)]

\* Bit t of x (bit 0 the least significant), and whether the t low bits of
\* x are all zero.
Bit(x, t) == (Limb(x, t \div LimbBits + 1) \div 2^(t % LimbBits)) % 2
LowBitsZero(x, t) ==
    /\ \A j \in 1..(t \div LimbBits) : Limb(x, j) = 0
    /\ Limb(x, t \div LimbBits + 1) % 2^(t % LimbBits) = 0

\* x + 1 for a four-limb x.
Succ4(x) ==
    LET s1 == x[1] + 1
        s2 == x[2] + s1 \div LimbBase
        s3 == x[3] + s2 \div LimbBase
    IN  <<s1 % LimbBase, s2 % LimbBase, s3 % LimbBase,
          x[4] + s3 \div LimbBase>>

\* The value of a four-limb x below 2^31.
ToInt(x) == x[1] + LimbBase * (x[2] + LimbBase * (x[3] + LimbBase * x[4]))

-----------------------------------------------------------------------------
(* IEEE-754 binary64 values that are positive and normal: [m, e] stands    *)
(* for m * 2^e, 2^52 <= m < 2^53.                                          *)

MantBits == 53

\* floor(log2(n/d)) for 0 < n, d < 2^9 with 2^-8 <= n/d < 2^9.
Log2Floor(n, d) ==
    CHOOSE p \in -8..8 : d * 2^(p + 8) <= n * 2^8 /\ n * 2^8 < d * 2^(p + 9)

\* Round to nearest, ties to even: q is the truncated significand, `above'
\* says the discarded part exceeds half a unit in the last place, `tie'
\* that it equals it.  Rounding up to 2^53 renormalises.
Renormalise(m1, e) ==
    IF m1[4] = 2^(MantBits - 3 * LimbBits)
    THEN [m |-> <<0, 0, 0, 2^(MantBits - 1 - 3 * LimbBits)>>, e |-> e + 1]
    ELSE [m |-> m1, e |-> e]
FRound(q, e, above, tie) ==
    IF above \/ (tie /\ q[1] % 2 = 1) THEN Renormalise(Succ4(q), e)
    ELSE [m |-> q, e |-> e]

\* The double nearest to n/d: what Python's parser makes of a decimal
\* literal such as 2.80 (n = 280, d = 100), and what int -> float conversion
\* makes of a small integer (d = 1).
RoundQuotient(dv, d, s) == FRound(dv.q, -s, 2 * dv.r > d, 2 * dv.r = d)
ScaledRatio(n, d, s) == RoundQuotient(DivSmall(ShiftLeft(n, s), d), d, s)
FromRatio(n, d) == ScaledRatio(n, d, (MantBits - 1) - Log2Floor(n, d))

FromInt(n) == FromRatio(n, 1)

\* x * y, correctly rounded: the 106-bit product is in [2^104, 2^106) and
\* loses its 52 or 53 low bits.
RoundBits(P, e, s, guard, low0) ==
    FRound(ShiftRight(P, s), e + s, guard /\ ~low0, guard /\ low0)
DropBits(P, e, s) ==
    RoundBits(P, e, s, Bit(P, s - 1) = 1, LowBitsZero(P, s - 1))
RoundProduct(P, e) ==
    DropBits(P, e, IF Bit(P, 2 * MantBits - 1) = 1 THEN MantBits
                   ELSE MantBits - 1)
\* Both operands are evaluated before they are multiplied, as in Python
\* (a \in {x} binds a to the value of x).
FMul(x, y) ==
    CHOOSE product \in {RoundProduct(Mul4(a.m, b.m), a.e + b.e) :
                           a \in {x}, b \in {y}} : TRUE

\* int(x): truncation towards zero of a positive double below 2^31.
FTrunc(x) ==
    IF -x.e >= MantBits THEN 0 ELSE ToInt(ShiftRight(x.m, -x.e))

-----------------------------------------------------------------------------
(* Python strings.  A string is written as a literal; its case            *)
(* conversions and substring tests work on its sequence of characters.    *)
(* upper() and lower() map the ASCII letters and leave every other        *)
(* character alone.                                                       *)

UpperOf ==
    "a" :> "A" @@ "b" :> "B" @@ "c" :> "C" @@ "d" :> "D" @@ "e" :> "E" @@ "f" :> "F"
    @@ "g" :> "G" @@ "h" :> "H" @@ "i" :> "I" @@ "j" :> "J" @@ "k" :> "K" @@ "l" :> "L"
    @@ "m" :> "M" @@ "n" :> "N" @@ "o" :> "O" @@ "p" :> "P" @@ "q" :> "Q" @@ "r" :> "R"
    @@ "s" :> "S" @@ "t" :> "T" @@ "u" :> "U" @@ "v" :> "V" @@ "w" :> "W" @@ "x" :> "X"
    @@ "y" :> "Y" @@ "z" :> "Z"

LowerOf ==
    "A" :> "a" @@ "B" :> "b" @@ "C" :> "c" @@ "D" :> "d" @@ "E" :> "e" @@ "F" :> "f"
    @@ "G" :> "g" @@ "H" :> "h" @@ "I" :> "i" @@ "J" :> "j" @@ "K" :> "k" @@ "L" :> "l"
    @@ "M" :> "m" @@ "N" :> "n" @@ "O" :> "o" @@ "P" :> "p" @@ "Q" :> "q" @@ "R" :> "r"
    @@ "S" :> "s" @@ "T" :> "t" @@ "U" :> "u" @@ "V" :> "v" @@ "W" :> "w" @@ "X" :> "x"
    @@ "Y" :> "y" @@ "Z" :> "z"

\* The characters of a string literal.
Chars(s) == SubSeq([i \in 1..Len(s) |-> SubSeq(s, i, i)], 1, Len(s))

\* str.upper() and str.lower(), as character sequences.
upper(s) ==
    LET up == [i \in 1..Len(s) |->
                  LET c == SubSeq(s, i, i)
                  IN  IF c \in DOMAIN UpperOf THEN UpperOf[c] ELSE c]
    IN  SubSeq(up, 1, Len(s))

lower(s) ==
    LET low == [i \in 1..Len(s) |->
                   LET c == SubSeq(s, i, i)
                   IN  IF c \in DOMAIN LowerOf THEN LowerOf[c] ELSE c]
    IN  SubSeq(low, 1, Len(s))

\* The same conversions giving string literals (for inputs).
RECURSIVE UpperCase(_)
UpperCase(s) ==
    IF s = "" THEN ""
    ELSE LET c == SubSeq(s, 1, 1)
         IN  (IF c \in DOMAIN UpperOf THEN UpperOf[c] ELSE c)
               \o UpperCase(SubSeq(s, 2, Len(s)))

RECURSIVE LowerCase(_)
LowerCase(s) ==
    IF s = "" THEN ""
    ELSE LET c == SubSeq(s, 1, 1)
         IN  (IF c \in DOMAIN LowerOf THEN LowerOf[c] ELSE c)
               \o LowerCase(SubSeq(s, 2, Len(s)))

\* p in s, for character sequences p and s.
Contains(p, s) ==
    \E i \in 0..(Len(s) - Len(p)) : \A j \in 1..Len(p) : s[i + j] = p[j]

-----------------------------------------------------------------------------
(* The built-in tables.  A Python dict iterates in insertion order, so a   *)
(* table is the sequence of its (key, value) items as written.  A float    *)
(* value is written in hundredths: 280 is the literal 2.80, whose double   *)
(* is FromRatio(280, 100).                                                 *)

GPU_PERFORMANCE_INDEX ==
    << [name |-> "RTX 4090", value |-> 280],
       [name |-> "RTX 4080 SUPER", value |-> 230],
       [name |-> "RTX 4080", value |-> 215],
       [name |-> "RTX 4070 TI SUPER", value |-> 195],
       [name |-> "RTX 4070 TI", value |-> 180],
       [name |-> "RTX 4070 SUPER", value |-> 165],
       [name |-> "RTX 4070", value |-> 145],
       [name |-> "RTX 4060 TI", value |-> 125],
       [name |-> "RTX 4060", value |-> 110],
       [name |-> "RTX 3090 TI", value |-> 185],
       [name |-> "RTX 3090", value |-> 175],
       [name |-> "RTX 3080 TI", value |-> 170],
       [name |-> "RTX 3080", value |-> 155],
       [name |-> "RTX 3070 TI", value |-> 130],
       [name |-> "RTX 3070", value |-> 120],
       [name |-> "RTX 3060 TI", value |-> 110],
       [name |-> "RTX 3060", value |-> 100],
       [name |-> "RTX 3050", value |-> 70],
       [name |-> "RTX 2080 TI", value |-> 120],
       [name |-> "RTX 2080 SUPER", value |-> 105],
       [name |-> "RTX 2080", value |-> 95],
       [name |-> "RTX 2070 SUPER", value |-> 90],
       [name |-> "RTX 2070", value |-> 82],
       [name |-> "RTX 2060 SUPER", value |-> 78],
       [name |-> "RTX 2060", value |-> 70],
       [name |-> "GTX 1660 TI", value |-> 58],
       [name |-> "GTX 1660 SUPER", value |-> 55],
       [name |-> "GTX 1660", value |-> 50],
       [name |-> "GTX 1650 SUPER", value |-> 45],
       [name |-> "GTX 1650", value |-> 35],
       [name |-> "GTX 1080 TI", value |-> 85],
       [name |-> "GTX 1080", value |-> 68],
       [name |-> "GTX 1070 TI", value |-> 62],
       [name |-> "GTX 1070", value |-> 55],
       [name |-> "GTX 1060", value |-> 42],
       [name |-> "GTX 1050 TI", value |-> 28],
       [name |-> "GTX 1050", value |-> 22] >>

RESOLUTION_MULTIPLIERS ==
    << [name |-> "1280x720", value |-> 180],
       [name |-> "1600x900", value |-> 140],
       [name |-> "1920x1080", value |-> 100],
       [name |-> "2560x1080", value |-> 85],
       [name |-> "2560x1440", value |-> 65],
       [name |-> "3440x1440", value |-> 55],
       [name |-> "3840x2160", value |-> 35],
       [name |-> "5120x2160", value |-> 28] >>

\* A variant of QUALITY_MULTIPLIERS in which low is slower than medium.
QUALITY_MULTIPLIERS_LowBelowMedium ==
    << [name |-> "low", value |-> 130],
       [name |-> "medium", value |-> 140],
       [name |-> "high", value |-> 100],
       [name |-> "ultra", value |-> 70],
       [name |-> "extreme", value |-> 50] >>

QUALITY_MULTIPLIERS ==
    << [name |-> "low", value |-> 200],
       [name |-> "medium", value |-> 140],
       [name |-> "high", value |-> 100],
       [name |-> "ultra", value |-> 70],
       [name |-> "extreme", value |-> 50] >>

GAME_BASE_FPS ==
    << [name |-> "Cyberpunk 2077", value |-> 55],
       [name |-> "Elden Ring", value |-> 58],
       [name |-> "Red Dead Redemption 2", value |-> 52],
       [name |-> "Hogwarts Legacy", value |-> 50],
       [name |-> "God of War Ragnarok", value |-> 65],
       [name |-> "Baldur's Gate 3", value |-> 60],
       [name |-> "Starfield", value |-> 45],
       [name |-> "Alan Wake 2", value |-> 40],
       [name |-> "Call of Duty: Warzone", value |-> 95],
       [name |-> "Fortnite", value |-> 120],
       [name |-> "Counter-Strike 2", value |-> 180],
       [name |-> "Valorant", value |-> 250],
       [name |-> "The Witcher 3: Wild Hunt", value |-> 80],
       [name |-> "GTA V", value |-> 100],
       [name |-> "Minecraft", value |-> 150] >>

GAMES_DATABASE ==
    << [name |-> "Cyberpunk 2077", recommended_vram |-> 8192,
        supports_dlss |-> TRUE, supports_fsr |-> TRUE],
       [name |-> "Elden Ring", recommended_vram |-> 8192,
        supports_dlss |-> FALSE, supports_fsr |-> FALSE],
       [name |-> "Red Dead Redemption 2", recommended_vram |-> 8192,
        supports_dlss |-> TRUE, supports_fsr |-> TRUE],
       [name |-> "Hogwarts Legacy", recommended_vram |-> 8192,
        supports_dlss |-> TRUE, supports_fsr |-> TRUE],
       [name |-> "God of War Ragnarok", recommended_vram |-> 8192,
        supports_dlss |-> TRUE, supports_fsr |-> TRUE],
       [name |-> "Baldur's Gate 3", recommended_vram |-> 8192,
        supports_dlss |-> TRUE, supports_fsr |-> TRUE],
       [name |-> "Starfield", recommended_vram |-> 8192,
        supports_dlss |-> TRUE, supports_fsr |-> TRUE],
       [name |-> "Alan Wake 2", recommended_vram |-> 16384,
        supports_dlss |-> TRUE, supports_fsr |-> TRUE],
       [name |-> "Call of Duty: Warzone", recommended_vram |-> 8192,
        supports_dlss |-> TRUE, supports_fsr |-> TRUE],
       [name |-> "Fortnite", recommended_vram |-> 4096,
        supports_dlss |-> TRUE, supports_fsr |-> TRUE],
       [name |-> "Counter-Strike 2", recommended_vram |-> 4096,
        supports_dlss |-> FALSE, supports_fsr |-> FALSE],
       [name |-> "Valorant", recommended_vram |-> 4096,
        supports_dlss |-> FALSE, supports_fsr |-> FALSE],
       [name |-> "The Witcher 3: Wild Hunt", recommended_vram |-> 8192,
        supports_dlss |-> TRUE, supports_fsr |-> TRUE],
       [name |-> "GTA V", recommended_vram |-> 4096,
        supports_dlss |-> FALSE, supports_fsr |-> FALSE],
       [name |-> "Minecraft", recommended_vram |-> 4096,
        supports_dlss |-> TRUE, supports_fsr |-> FALSE] >>

\* dict.get(key, default) and `key in dict'
HasKey(table, key) == \E i \in 1..Len(table) : table[i].name = key
Lookup(table, key) ==
    table[CHOOSE i \in 1..Len(table) : table[i].name = key]

\* A loop over the n items of a table that returns from the first item
\* satisfying its test: hits[i] says whether item i does.  The position of
\* that item, from position i >= 1 on: the one that satisfies the test
\* while none before it does; 0 when the loop runs to its end.
FirstHit(hits, i, n) ==
    CHOOSE k \in (i..n) \cup {0} :
        IF k = 0 THEN \A j \in i..n : ~hits[j]
        ELSE hits[k] /\ \A j \in i..(k - 1) : ~hits[j]

\* model_name.upper() and name.lower() for the keys of the two name tables.
GpuModelUpper ==
    SubSeq([i \in 1..Len(GPU_PERFORMANCE_INDEX) |->
               upper(GPU_PERFORMANCE_INDEX[i].name)],
           1, Len(GPU_PERFORMANCE_INDEX))
GameNameLower ==
    SubSeq([i \in 1..Len(GAME_BASE_FPS) |-> lower(GAME_BASE_FPS[i].name)],
           1, Len(GAME_BASE_FPS))

-----------------------------------------------------------------------------
(* FPSPredictor: the resolvers.                                            *)

\* A variant of GpuMatch that compares the names as they are written.
GpuMatch_CaseSensitive(gpu_name) ==
    FirstHit([i \in 1..Len(GPU_PERFORMANCE_INDEX) |->
                 Contains(Chars(GPU_PERFORMANCE_INDEX[i].name),
                          Chars(gpu_name))],
             1, Len(GPU_PERFORMANCE_INDEX))

\* A variant of GpuMatch that iterates the table from its last item to its
\* first.
GpuMatch_ReverseOrder(gpu_name) ==
    LET gpu_name_upper == upper(gpu_name)
        n == Len(GPU_PERFORMANCE_INDEX)
        k == FirstHit([i \in 1..n |->
                          Contains(GpuModelUpper[n + 1 - i], gpu_name_upper)],
                      1, n)
    IN  IF k = 0 THEN 0 ELSE n + 1 - k

\* The iteration of _get_gpu_performance_index: the item it returns from,
\* 0 when it falls through to the conservative estimate.
GpuMatch(gpu_name) ==
    LET gpu_name_upper == upper(gpu_name)
    IN  FirstHit([i \in 1..Len(GPU_PERFORMANCE_INDEX) |->
                     Contains(GpuModelUpper[i], gpu_name_upper)],
                 1, Len(GPU_PERFORMANCE_INDEX))

\* A variant of IndexAt that returns the reciprocal of the multiplier.
IndexAt_Reciprocal(i) ==
    IF i # 0 THEN FromRatio(100, GPU_PERFORMANCE_INDEX[i].value)
    ELSE FromRatio(100, 50)

IndexAt(i) ==
    IF i # 0 THEN FromRatio(GPU_PERFORMANCE_INDEX[i].value, 100)
    ELSE FromRatio(50, 100)

get_gpu_performance_index(gpu_name) == IndexAt(GpuMatch(gpu_name))

\* A variant of get_resolution_multiplier that finds no key in the table.
get_resolution_multiplier_NoKey(resolution) == FromRatio(10, 10)

\* A variant of get_resolution_multiplier whose default halves the rate.
get_resolution_multiplier_HalfDefault(resolution) ==
    IF HasKey(RESOLUTION_MULTIPLIERS, resolution)
    THEN FromRatio(Lookup(RESOLUTION_MULTIPLIERS, resolution).value, 100)
    ELSE FromRatio(5, 10)

get_resolution_multiplier(resolution) ==
    IF HasKey(RESOLUTION_MULTIPLIERS, resolution)
    THEN FromRatio(Lookup(RESOLUTION_MULTIPLIERS, resolution).value, 100)
    ELSE FromRatio(10, 10)

\* A variant of get_quality_multiplier that always takes the default.
get_quality_multiplier_Default(quality) == FromRatio(10, 10)

get_quality_multiplier(quality) ==
    LET key == lower(quality)
        Is(i) == Chars(QUALITY_MULTIPLIERS[i].name) = key
    IN  IF \E i \in 1..Len(QUALITY_MULTIPLIERS) : Is(i)
        THEN FromRatio(QUALITY_MULTIPLIERS[
                 CHOOSE i \in 1..Len(QUALITY_MULTIPLIERS) : Is(i)].value, 100)
        ELSE FromRatio(10, 10)

\* A variant of PartialGameMatch that only tests whether the input is
\* contained in the table name.
PartialGameMatch_InputInName(g) ==
    FirstHit([k \in 1..Len(GAME_BASE_FPS) |-> Contains(g, GameNameLower[k])],
             1, Len(GAME_BASE_FPS))

\* The loop of _get_game_base_fps over the lowercased input g: the first
\* item whose lowercased name contains g or is contained in it, 0 when the
\* loop runs to its end.
PartialGameMatch(g) ==
    FirstHit([k \in 1..Len(GAME_BASE_FPS) |->
                 \/ Contains(g, GameNameLower[k])
                 \/ Contains(GameNameLower[k], g)],
             1, Len(GAME_BASE_FPS))

\* The item of GAME_BASE_FPS that _get_game_base_fps returns from: the exact
\* key, else the item of the loop; 0 when it falls through to the default.
GameMatch(game_name) ==
    IF HasKey(GAME_BASE_FPS, game_name)
    THEN CHOOSE i \in 1..Len(GAME_BASE_FPS) : GAME_BASE_FPS[i].name = game_name
    ELSE PartialGameMatch(lower(game_name))

\* A variant of BaseFpsAt whose default is one frame per second.
BaseFpsAt_UnitDefault(i) == IF i # 0 THEN GAME_BASE_FPS[i].value ELSE 1

BaseFpsAt(i) == IF i # 0 THEN GAME_BASE_FPS[i].value ELSE 60

get_game_base_fps(game_name) == BaseFpsAt(GameMatch(game_name))

-----------------------------------------------------------------------------
(* GameAnalyzer.get_game_requirements over an analyzer's games_db.  Of a   *)
(* GameRequirements the predictor reads recommended_vram, supports_dlss    *)
(* and supports_fsr; the result None is the record NoRequirements.         *)

NoRequirements == [found |-> FALSE]

\* An entry of a games_db is its key (name) with the items of its data
\* dict.  `not game_data' holds of an empty dict as it does of None: the
\* data of entry e (0 for no entry) counts when it has an item.
HasData(db, e) == e # 0 /\ DOMAIN db[e] # {"name"}

\* game_data.get(key, default) of an entry.
DataGet(entry, key, default) ==
    IF key \in DOMAIN entry THEN entry[key] ELSE default

get_game_requirements(db, game_name) ==
    LET g  == lower(game_name)
        e1 == FirstHit([k \in 1..Len(db) |-> db[k].name = game_name],
                       1, Len(db))
        e2 == FirstHit([k \in 1..Len(db) |-> lower(db[k].name) = g],
                       1, Len(db))
        e3 == FirstHit([k \in 1..Len(db) |-> Contains(g, lower(db[k].name))],
                       1, Len(db))
        i  == IF HasData(db, e1) THEN e1
              ELSE IF HasData(db, e2) THEN e2
              ELSE IF HasData(db, e3) THEN e3
              ELSE 0
    IN  IF i = 0 THEN NoRequirements
        ELSE [found |-> TRUE, name |-> db[i].name,
              recommended_vram |-> DataGet(db[i], "recommended_vram", 0),
              supports_dlss |-> DataGet(db[i], "supports_dlss", FALSE),
              supports_fsr |-> DataGet(db[i], "supports_fsr", FALSE)]

-----------------------------------------------------------------------------
(* FPSPredictor.predict                                                    *)

VramNote(vram_total, recommended_vram) ==
    "VRAM (" \o ToString(vram_total) \o "MB) is below recommended ("
        \o ToString(recommended_vram) \o "MB). May experience stuttering."
DlssNote == "DLSS available - can boost FPS by 30-60%"
FsrNote == "FSR available - can boost FPS by 20-40%"
FourKNote ==
    "4K gaming is very demanding. Consider DLSS/FSR for better performance."
LowerPresetNote == "Consider reducing to High for smoother gameplay."

\* A variant of predicted_fps that multiplies from the right.
predicted_fps_from_right(base_fps, gpu_index, res_multiplier, quality_multiplier) ==
    FMul(FromInt(base_fps),
         FMul(gpu_index, FMul(res_multiplier, quality_multiplier)))

\* predicted_fps = base_fps * gpu_index * res_multiplier * quality_multiplier,
\* evaluated left to right in double precision.
predicted_fps(base_fps, gpu_index, res_multiplier, quality_multiplier) ==
    FMul(FMul(FMul(FromInt(base_fps), gpu_index), res_multiplier),
         quality_multiplier)

\* A variant of fps_min with the band on the wrong side of the average.
fps_min_above(predicted_fps_value) ==
    FTrunc(FMul(predicted_fps_value, FromRatio(125, 100)))

\* The four figures of a prediction: int() of the product and of its bands.
fps_average(predicted_fps_value) == FTrunc(predicted_fps_value)
fps_min(predicted_fps_value) ==
    FTrunc(FMul(predicted_fps_value, FromRatio(75, 100)))
fps_max(predicted_fps_value) ==
    FTrunc(FMul(predicted_fps_value, FromRatio(115, 100)))
fps_1_percent_low(predicted_fps_value) ==
    FTrunc(FMul(predicted_fps_value, FromRatio(60, 100)))

\* The confidence level of predict.
confidence_level(gpu_name, game_name) ==
    LET gpu_in_db ==
            \E i \in 1..Len(GPU_PERFORMANCE_INDEX) :
                Contains(GpuModelUpper[i], upper(gpu_name))
        game_in_db ==
            \/ HasKey(GAME_BASE_FPS, game_name)
            \/ \E i \in 1..Len(GAME_BASE_FPS) :
                   Contains(lower(game_name), GameNameLower[i])
    IN  IF gpu_in_db /\ game_in_db THEN "high"
        ELSE IF gpu_in_db \/ game_in_db THEN "medium"
        ELSE "low"

\* A variant of NotesFor that also warns when the memory equals the
\* recommendation.
NotesFor_VramAtMost(game_req, gpu_info, resolution, quality_preset, average) ==
    LET vram_note ==
            IF game_req.found
               /\ gpu_info.vram_total <= game_req.recommended_vram
            THEN <<VramNote(gpu_info.vram_total, game_req.recommended_vram)>>
            ELSE <<>>
        upscaling_note ==
            IF ~game_req.found THEN <<>>
            ELSE IF game_req.supports_dlss
                    /\ Contains(Chars("RTX"), upper(gpu_info.name))
                 THEN <<DlssNote>>
            ELSE IF game_req.supports_fsr THEN <<FsrNote>>
            ELSE <<>>
        resolution_note ==
            IF resolution \in {"3840x2160", "5120x2160"}
            THEN <<FourKNote>> ELSE <<>>
        quality_note ==
            IF lower(quality_preset) = Chars("ultra") /\ average < 60
            THEN <<LowerPresetNote>> ELSE <<>>
    IN  vram_note \o upscaling_note \o resolution_note \o quality_note

\* A variant of NotesFor that offers DLSS on every processor.
NotesFor_DlssOnAnyProcessor(game_req, gpu_info, resolution, quality_preset, average) ==
    LET vram_note ==
            IF game_req.found
               /\ gpu_info.vram_total < game_req.recommended_vram
            THEN <<VramNote(gpu_info.vram_total, game_req.recommended_vram)>>
            ELSE <<>>
        upscaling_note ==
            IF ~game_req.found THEN <<>>
            ELSE IF game_req.supports_dlss THEN <<DlssNote>>
            ELSE IF game_req.supports_fsr THEN <<FsrNote>>
            ELSE <<>>
        resolution_note ==
            IF resolution \in {"3840x2160", "5120x2160"}
            THEN <<FourKNote>> ELSE <<>>
        quality_note ==
            IF lower(quality_preset) = Chars("ultra") /\ average < 60
            THEN <<LowerPresetNote>> ELSE <<>>
    IN  vram_note \o upscaling_note \o resolution_note \o quality_note

\* A variant of NotesFor that appends the quality note before the
\* resolution note.
NotesFor_QualityNoteFirst(game_req, gpu_info, resolution, quality_preset, average) ==
    LET vram_note ==
            IF game_req.found
               /\ gpu_info.vram_total < game_req.recommended_vram
            THEN <<VramNote(gpu_info.vram_total, game_req.recommended_vram)>>
            ELSE <<>>
        upscaling_note ==
            IF ~game_req.found THEN <<>>
            ELSE IF game_req.supports_dlss
                    /\ Contains(Chars("RTX"), upper(gpu_info.name))
                 THEN <<DlssNote>>
            ELSE IF game_req.supports_fsr THEN <<FsrNote>>
            ELSE <<>>
        resolution_note ==
            IF resolution \in {"3840x2160", "5120x2160"}
            THEN <<FourKNote>> ELSE <<>>
        quality_note ==
            IF lower(quality_preset) = Chars("ultra") /\ average < 60
            THEN <<LowerPresetNote>> ELSE <<>>
    IN  vram_note \o upscaling_note \o quality_note \o resolution_note

\* The notes of predict, in the order they are appended; game_req is what
\* get_game_requirements returned.
NotesFor(game_req, gpu_info, resolution, quality_preset, average) ==
    LET vram_note ==
            IF game_req.found
               /\ gpu_info.vram_total < game_req.recommended_vram
            THEN <<VramNote(gpu_info.vram_total, game_req.recommended_vram)>>
            ELSE <<>>
        upscaling_note ==
            IF ~game_req.found THEN <<>>
            ELSE IF game_req.supports_dlss
                    /\ Contains(Chars("RTX"), upper(gpu_info.name))
                 THEN <<DlssNote>>
            ELSE IF game_req.supports_fsr THEN <<FsrNote>>
            ELSE <<>>
        resolution_note ==
            IF resolution \in {"3840x2160", "5120x2160"}
            THEN <<FourKNote>> ELSE <<>>
        quality_note ==
            IF lower(quality_preset) = Chars("ultra") /\ average < 60
            THEN <<LowerPresetNote>> ELSE <<>>
    IN  vram_note \o upscaling_note \o resolution_note \o quality_note

prediction_notes(db, gpu_info, game_name, resolution, quality_preset, average) ==
    NotesFor(get_game_requirements(db, game_name), gpu_info, resolution,
             quality_preset, average)

\* The FPSPrediction predict returns for the product fps.
FPSPrediction(db, gpu_info, game_name, resolution, quality_preset, fps) ==
    [game_name |-> game_name,
     gpu_name |-> gpu_info.name,
     resolution |-> resolution,
     quality_preset |-> quality_preset,
     fps_min |-> fps_min(fps),
     fps_max |-> fps_max(fps),
     fps_average |-> fps_average(fps),
     fps_1_percent_low |-> fps_1_percent_low(fps),
     confidence |-> confidence_level(gpu_info.name, game_name),
     notes |-> prediction_notes(db, gpu_info, game_name, resolution,
                                quality_preset, fps_average(fps))]

\* predict looks up its four factors, in this order, then multiplies them.
predict(db, gpu_info, game_name, resolution, quality_preset) ==
    CHOOSE prediction \in
        {FPSPrediction(db, gpu_info, game_name, resolution, quality_preset,
                       predicted_fps(base_fps, gpu_index, res_multiplier,
                                     quality_multiplier)) :
            base_fps \in {get_game_base_fps(game_name)},
            gpu_index \in {get_gpu_performance_index(gpu_info.name)},
            res_multiplier \in {get_resolution_multiplier(resolution)},
            quality_multiplier \in {get_quality_multiplier(quality_preset)}} :
        TRUE

-----------------------------------------------------------------------------
(* FPSPredictor.find_optimal_settings                                      *)

None == [none |-> TRUE]

resolutions == <<"3840x2160", "2560x1440", "1920x1080", "1280x720">>
presets == <<"ultra", "high", "medium", "low">>

\* A variant of reversed that keeps the order.
reversed_SameOrder(seq) == seq

reversed(seq) == [k \in 1..Len(seq) |-> seq[Len(seq) + 1 - k]]

\* The arguments of one search.
SearchArgs(db, gpu_info, game_name, target_fps) ==
    [db |-> db, gpu_info |-> gpu_info, game_name |-> game_name,
     target_fps |-> target_fps]

Config(res, preset, prediction) ==
    [resolution |-> res, quality_preset |-> preset, prediction |-> prediction]

\* The local variables of one search: best_config, the positions i and j of
\* the two loops in their lists, and the predict calls made so far, as
\* (resolution, preset) pairs.
Locals(i, j, best_config, calls) ==
    [i |-> i, j |-> j, best_config |-> best_config, calls |-> calls]

\* prefer_quality: the inner loop over presets from position st.j on, and
\* its body for the prediction made: when the target is reached set
\* best_config (if it is still None) and break.
RECURSIVE QualityPresets(_, _)

\* A variant of QualityBody that records a hit and goes on with the loop.
QualityBody_NoBreak(a, st, prediction) ==
    QualityPresets(a,
        [st EXCEPT
            !.j = @ + 1,
            !.best_config =
                IF prediction.fps_average >= a.target_fps
                THEN Config(resolutions[st.i], presets[st.j], prediction)
                ELSE @,
            !.calls = Append(@, <<resolutions[st.i], presets[st.j]>>)])

QualityBody(a, st, prediction) ==
    IF prediction.fps_average >= a.target_fps
    THEN [st EXCEPT
             !.best_config =
                 IF @ = None
                 THEN Config(resolutions[st.i], presets[st.j], prediction)
                 ELSE @,
             !.calls = Append(@, <<resolutions[st.i], presets[st.j]>>)]
    ELSE QualityPresets(a,
             [st EXCEPT
                 !.j = @ + 1,
                 !.calls = Append(@, <<resolutions[st.i], presets[st.j]>>)])

QualityPresets(a, st) ==
    IF st.j > Len(presets) THEN st
    ELSE QualityBody(a, st,
             predict(a.db, a.gpu_info, a.game_name,
                     resolutions[st.i], presets[st.j]))

\* prefer_quality: the outer loop over resolutions from position st.i on,
\* left as soon as best_config is set after the inner loop.
RECURSIVE QualityResolutions(_, _)
QualityOuterBody(a, st) ==
    IF st.best_config # None THEN st
    ELSE QualityResolutions(a, [st EXCEPT !.i = @ + 1])

QualityResolutions(a, st) ==
    IF st.i > Len(resolutions) THEN st
    ELSE QualityOuterBody(a, QualityPresets(a, [st EXCEPT !.j = 1]))

\* A variant of PerformanceBody that keeps the first best_config.
PerformanceBody_KeepFirst(a, st, prediction) ==
    [st EXCEPT
        !.j = @ + 1,
        !.best_config =
            IF prediction.fps_average >= a.target_fps /\ @ = None
            THEN Config(reversed(resolutions)[st.i],
                        reversed(presets)[st.j], prediction)
            ELSE @,
        !.calls = Append(@, <<reversed(resolutions)[st.i],
                              reversed(presets)[st.j]>>)]

\* A variant of PerformanceBody that keeps the hit with the highest
\* average.
PerformanceBody_KeepsFastest(a, st, prediction) ==
    [st EXCEPT
        !.j = @ + 1,
        !.best_config =
            IF /\ prediction.fps_average >= a.target_fps
               /\ \/ @ = None
                  \/ prediction.fps_average > @.prediction.fps_average
            THEN Config(reversed(resolutions)[st.i],
                        reversed(presets)[st.j], prediction)
            ELSE @,
        !.calls = Append(@, <<reversed(resolutions)[st.i],
                              reversed(presets)[st.j]>>)]

\* A variant of PerformanceBody that compares fps_max with the target.
PerformanceBody_ComparesMax(a, st, prediction) ==
    [st EXCEPT
        !.j = @ + 1,
        !.best_config =
            IF prediction.fps_max >= a.target_fps
            THEN Config(reversed(resolutions)[st.i],
                        reversed(presets)[st.j], prediction)
            ELSE @,
        !.calls = Append(@, <<reversed(resolutions)[st.i],
                              reversed(presets)[st.j]>>)]

\* not prefer_quality: the body of the inner loop for the prediction made:
\* when the target is reached overwrite best_config.
PerformanceBody(a, st, prediction) ==
    [st EXCEPT
        !.j = @ + 1,
        !.best_config =
            IF prediction.fps_average >= a.target_fps
            THEN Config(reversed(resolutions)[st.i],
                        reversed(presets)[st.j], prediction)
            ELSE @,
        !.calls = Append(@, <<reversed(resolutions)[st.i],
                              reversed(presets)[st.j]>>)]

\* not prefer_quality: the inner loop over reversed(presets) from position
\* st.j on.
RECURSIVE PerformancePresets(_, _)
PerformancePresets(a, st) ==
    IF st.j > Len(presets) THEN st
    ELSE PerformancePresets(a,
             PerformanceBody(a, st,
                 predict(a.db, a.gpu_info, a.game_name,
                         reversed(resolutions)[st.i],
                         reversed(presets)[st.j])))

\* not prefer_quality: the outer loop over reversed(resolutions); both loops
\* run to their end.
RECURSIVE PerformanceResolutions(_, _)
PerformanceResolutions(a, st) ==
    IF st.i > Len(resolutions) THEN st
    ELSE PerformanceResolutions(a,
             [PerformancePresets(a, [st EXCEPT !.j = 1]) EXCEPT !.i = @ + 1])

CannotAchieve(target_fps) ==
    "Cannot achieve " \o ToString(target_fps) \o " FPS even at lowest settings"

\* A variant of SearchResult whose fallback carries no warning.
SearchResult_NoWarning(a, st) ==
    IF st.best_config = None
    THEN [result |->
             [resolution |-> "1280x720", quality_preset |-> "low",
              prediction |-> predict(a.db, a.gpu_info, a.game_name,
                                     "1280x720", "low")],
          calls |-> Append(st.calls, <<"1280x720", "low">>)]
    ELSE [result |-> st.best_config, calls |-> st.calls]

\* A variant of SearchResult whose fallback calls predict with its default
\* resolution and quality.
SearchResult_DefaultPredict(a, st) ==
    IF st.best_config = None
    THEN [result |->
             [resolution |-> "1280x720", quality_preset |-> "low",
              prediction |-> predict(a.db, a.gpu_info, a.game_name,
                                     "1920x1080", "high"),
              warning |-> CannotAchieve(a.target_fps)],
          calls |-> Append(st.calls, <<"1920x1080", "high">>)]
    ELSE [result |-> st.best_config, calls |-> st.calls]

\* What the search returns after its loops, with the predict calls made:
\* best_config, or the lowest settings with a warning when it is None.
SearchResult(a, st) ==
    IF st.best_config = None
    THEN [result |->
             [resolution |-> "1280x720", quality_preset |-> "low",
              prediction |-> predict(a.db, a.gpu_info, a.game_name,
                                     "1280x720", "low"),
              warning |-> CannotAchieve(a.target_fps)],
          calls |-> Append(st.calls, <<"1280x720", "low">>)]
    ELSE [result |-> st.best_config, calls |-> st.calls]

SearchLoops(a, prefer_quality) ==
    IF prefer_quality
    THEN QualityResolutions(a, Locals(1, 1, None, <<>>))
    ELSE PerformanceResolutions(a, Locals(1, 1, None, <<>>))

\* The search with the predict calls it made: [result, calls].
find_optimal_settings_run(db, gpu_info, game_name, target_fps, prefer_quality) ==
    SearchResult(SearchArgs(db, gpu_info, game_name, target_fps),
        SearchLoops(SearchArgs(db, gpu_info, game_name, target_fps),
                    prefer_quality))

find_optimal_settings(db, gpu_info, game_name, target_fps, prefer_quality) ==
    find_optimal_settings_run(db, gpu_info, game_name, target_fps,
                              prefer_quality).result

-----------------------------------------------------------------------------
(* FPSPredictor.predict_all_presets and predict_all_resolutions.  A dict   *)
(* comprehension gives the keys in the order of the list it runs over: the *)
(* result is the sequence of its (key, prediction) items.                  *)

\* A variant of AllPresetsKeys in the order of the search.
AllPresetsKeys_Descending == <<"ultra", "high", "medium", "low">>

AllPresetsKeys == <<"low", "medium", "high", "ultra">>

AllResolutionsKeys == <<"1920x1080", "2560x1440", "3840x2160">>

predict_all_presets(db, gpu_info, game_name, resolution) ==
    [k \in 1..Len(AllPresetsKeys) |->
        [key |-> AllPresetsKeys[k],
         value |-> predict(db, gpu_info, game_name, resolution,
                           AllPresetsKeys[k])]]

predict_all_resolutions(db, gpu_info, game_name, quality_preset) ==
    [k \in 1..Len(AllResolutionsKeys) |->
        [key |-> AllResolutionsKeys[k],
         value |-> predict(db, gpu_info, game_name, AllResolutionsKeys[k],
                           quality_preset)]]

-----------------------------------------------------------------------------
(* FPSPredictor.compare_gpus                                               *)

\* floor(log2(n/d)) for 0 < n, d < 2^13.
Log2FloorWide(n, d) ==
    CHOOSE p \in -13..13 :
        IF p >= 0 THEN d * 2^p <= n /\ n < d * 2^(p + 1)
        ELSE d <= n * 2^(-p) /\ n * 2^(-p - 1) < d

\* n / d for positive ints below 2^13: true division gives the double
\* nearest to the quotient.
TrueDiv(n, d) == ScaledRatio(n, d, (MantBits - 1) - Log2FloorWide(n, d))

\* round(x, 1) of a positive double x below 2^24, as a whole number of
\* tenths: the exact value of x times ten, rounded to the nearest integer,
\* ties to even.  P is the significand of x times ten, s the bits to drop.
NearestInt(q, guard, low0) ==
    IF guard /\ (~low0 \/ q % 2 = 1) THEN q + 1 ELSE q
DropToInt(P, s) ==
    NearestInt(ToInt(ShiftRight(P, s)), Bit(P, s - 1) = 1,
               LowBitsZero(P, s - 1))
RoundTenths(x) == DropToInt(Mul4(x.m, <<10, 0, 0, 0>>), -x.e)

Abs(n) == IF n < 0 THEN -n ELSE n
Sign(n) == IF n < 0 THEN -1 ELSE IF n > 0 THEN 1 ELSE 0

\* A variant of percentage that divides by the second processor's figure.
percentage_OfSecond(difference, gpu1_fps) ==
    IF gpu1_fps > 0 /\ gpu1_fps + difference > 0 /\ difference # 0
    THEN Sign(difference)
           * RoundTenths(FMul(TrueDiv(Abs(difference), gpu1_fps + difference),
                              FromInt(100)))
    ELSE 0

\* round((difference / pred1.fps_average * 100) if pred1.fps_average > 0
\* else 0, 1), in tenths.  A zero difference gives 0.0; the quotient of a
\* negative difference is the negative of that of its absolute value.
percentage(difference, gpu1_fps) ==
    IF gpu1_fps > 0 /\ difference # 0
    THEN Sign(difference)
           * RoundTenths(FMul(TrueDiv(Abs(difference), gpu1_fps),
                              FromInt(100)))
    ELSE 0

\* A variant of gpu2_fps computed with the first processor's name.
gpu2_fps_OfFirst(gpu1_info, gpu2_name, game_name, resolution, quality_preset) ==
    FTrunc(predicted_fps(get_game_base_fps(game_name),
                         get_gpu_performance_index(gpu1_info.name),
                         get_resolution_multiplier(resolution),
                         get_quality_multiplier(quality_preset)))

\* gpu2_fps = int(base_fps * gpu2_index * res_multiplier * quality_multiplier)
gpu2_fps(gpu1_info, gpu2_name, game_name, resolution, quality_preset) ==
    FTrunc(predicted_fps(get_game_base_fps(game_name),
                         get_gpu_performance_index(gpu2_name),
                         get_resolution_multiplier(resolution),
                         get_quality_multiplier(quality_preset)))

\* A variant of faster_gpu that names the second processor on a tie.
faster_gpu_TieToSecond(gpu1_info, gpu2_name, difference) ==
    IF difference >= 0 THEN gpu2_name ELSE gpu1_info.name

faster_gpu(gpu1_info, gpu2_name, difference) ==
    IF difference > 0 THEN gpu2_name ELSE gpu1_info.name

\* A variant of Comparison whose difference is taken the other way round.
Comparison_ReversedDifference(gpu1_info, gpu2_name, game_name, resolution, quality_preset, pred1, fps2) ==
    [gpu1_name |-> gpu1_info.name,
     gpu1_fps |-> pred1.fps_average,
     gpu2_name |-> gpu2_name,
     gpu2_fps |-> fps2,
     fps_difference |-> pred1.fps_average - fps2,
     percentage_difference |->
         percentage(pred1.fps_average - fps2, pred1.fps_average),
     faster_gpu |-> faster_gpu(gpu1_info, gpu2_name,
                               pred1.fps_average - fps2),
     game |-> game_name,
     resolution |-> resolution,
     quality |-> quality_preset]

\* The dict compare_gpus returns for pred1 and gpu2_fps; the percentage
\* difference is in tenths.
Comparison(gpu1_info, gpu2_name, game_name, resolution, quality_preset, pred1, fps2) ==
    [gpu1_name |-> gpu1_info.name,
     gpu1_fps |-> pred1.fps_average,
     gpu2_name |-> gpu2_name,
     gpu2_fps |-> fps2,
     fps_difference |-> fps2 - pred1.fps_average,
     percentage_difference |->
         percentage(fps2 - pred1.fps_average, pred1.fps_average),
     faster_gpu |-> faster_gpu(gpu1_info, gpu2_name,
                               fps2 - pred1.fps_average),
     game |-> game_name,
     resolution |-> resolution,
     quality |-> quality_preset]

compare_gpus(db, gpu1_info, gpu2_name, game_name, resolution, quality_preset) ==
    Comparison(gpu1_info, gpu2_name, game_name, resolution, quality_preset,
               predict(db, gpu1_info, game_name, resolution, quality_preset),
               gpu2_fps(gpu1_info, gpu2_name, game_name, resolution,
                        quality_preset))

-----------------------------------------------------------------------------
(* The inputs the operations are called with.                              *)

\* Target frame rates are the multiples of TargetStep from -TargetStep to
\* MaxTargetSteps * TargetStep, and one no processor reaches.
MaxTargetSteps == 6
TargetStep == 30
Targets ==
    {k * TargetStep : k \in -1..MaxTargetSteps} \cup {240, 100000}

GpuPatterns ==
    {GPU_PERFORMANCE_INDEX[i].name : i \in 1..Len(GPU_PERFORMANCE_INDEX)}

UnknownGpuNames == {"Unknown GPU XYZ", "AMD Radeon RX 7900 XTX", "RTX", ""}

\* Names as the driver reports them, in other cases, with two patterns.
GpuNames ==
    GpuPatterns
      \cup {"NVIDIA GeForce " \o n : n \in GpuPatterns}
      \cup {LowerCase(n) : n \in GpuPatterns}
      \cup {"NVIDIA GeForce RTX 4070 Ti SUPER", "GeForce GTX 1660 Ti 6GB",
            "RTX 3060 vs RTX 4090", "GTX 1050 / GTX 1050 TI"}
      \cup UnknownGpuNames

GamePatterns == {GAME_BASE_FPS[i].name : i \in 1..Len(GAME_BASE_FPS)}

UnknownGameNames == {"Unknown Title 2099", "Tetris"}

GameNames ==
    GamePatterns
      \cup {LowerCase(n) : n \in GamePatterns}
      \cup {UpperCase(n) : n \in GamePatterns}
      \cup {n \o " Deluxe Edition" : n \in GamePatterns}
      \cup {"Witcher", "cyberpunk", "gta v online", "Play Fortnite or Valorant",
            "Ring", "2", ""}
      \cup UnknownGameNames

ResolutionKeys ==
    {RESOLUTION_MULTIPLIERS[i].name : i \in 1..Len(RESOLUTION_MULTIPLIERS)}
      \cup {"800x600"}

QualityKeys ==
    {QUALITY_MULTIPLIERS[i].name : i \in 1..Len(QUALITY_MULTIPLIERS)}
      \cup {"Ultra", "custom"}

GPUInfo(name, vram_total) == [name |-> name, vram_total |-> vram_total]

\* Processors predict is called with: table patterns as the driver names
\* them, with several memory sizes, in another case, and an unknown one.
PredictGpus ==
    {GPUInfo("NVIDIA GeForce RTX 4090", 24576),
     GPUInfo("NVIDIA GeForce RTX 4070 Ti SUPER", 16384),
     GPUInfo("NVIDIA GeForce RTX 3070", 8192),
     GPUInfo("NVIDIA GeForce RTX 3060", 12288),
     GPUInfo("NVIDIA GeForce GTX 1660 Ti", 6144),
     GPUInfo("NVIDIA GeForce GTX 1050", 2048),
     GPUInfo("geforce rtx 3070", 8192),
     GPUInfo("Unknown GPU XYZ", 0)}

PredictGames ==
    {"Cyberpunk 2077", "Alan Wake 2", "Elden Ring", "Valorant", "Minecraft",
     "cyberpunk 2077", "Witcher", "Fortnite Deluxe Edition",
     "Unknown Title 2099"}

\* Processors and games of the grid search.
SearchGpus ==
    {GPUInfo("NVIDIA GeForce RTX 4090", 24576),
     GPUInfo("NVIDIA GeForce RTX 3070", 8192),
     GPUInfo("NVIDIA GeForce GTX 1060", 6144),
     GPUInfo("Unknown GPU XYZ", 0)}

SearchGames ==
    {"Cyberpunk 2077", "Fortnite", "Valorant", "Unknown Title 2099"}

\* Processors, names of second processors, games and settings of the
\* comparisons: the ends of the index table, two neighbours at its low end,
\* a name in another case and unknown names.
CompareGpus ==
    {GPUInfo("NVIDIA GeForce RTX 4090", 24576),
     GPUInfo("NVIDIA GeForce RTX 3070", 8192),
     GPUInfo("NVIDIA GeForce GTX 1050", 2048),
     GPUInfo("Unknown GPU XYZ", 0)}

CompareNames ==
    {"RTX 4090", "RTX 3070", "rtx 3070 ti", "GTX 1050 Ti", "GTX 1050",
     "Unknown GPU XYZ"}

CompareGames == {"Cyberpunk 2077", "Alan Wake 2", "Valorant", "Tetris"}

CompareResolutions == {"1920x1080", "1280x720", "5120x2160"}

CompareQualities == {"high", "low", "extreme"}

-----------------------------------------------------------------------------
(* The state machine: one FPSPredictor, called by a client.  pc is "idle"  *)
(* between calls and "done" when a call has returned; call is the call     *)
(* made, ret its result, predict_calls the predict invocations made on its *)
(* behalf by find_optimal_settings, games_db the database of the           *)
(* predictor's GameAnalyzer.                                               *)

VARIABLES pc, call, ret, predict_calls, games_db

vars == <<pc, call, ret, predict_calls, games_db>>

\* FPSPredictor(): self.game_analyzer = GameAnalyzer(), whose games_db is a
\* copy of GAMES_DATABASE.
Init ==
    /\ pc = "idle"
    /\ call = None
    /\ ret = None
    /\ predict_calls = <<>>
    /\ games_db = GAMES_DATABASE

\* A client calls _get_gpu_performance_index with some name.
GetGpuPerformanceIndex ==
    /\ pc = "idle"
    /\ \E gpu_name \in GpuNames :
           /\ call' = [op |-> "_get_gpu_performance_index",
                       gpu_name |-> gpu_name]
           /\ ret' = get_gpu_performance_index(gpu_name)
    /\ pc' = "done"
    /\ UNCHANGED <<predict_calls, games_db>>

\* A client calls _get_game_base_fps with some name.
GetGameBaseFps ==
    /\ pc = "idle"
    /\ \E game_name \in GameNames :
           /\ call' = [op |-> "_get_game_base_fps", game_name |-> game_name]
           /\ ret' = get_game_base_fps(game_name)
    /\ pc' = "done"
    /\ UNCHANGED <<predict_calls, games_db>>

\* A client calls predict.
Predict ==
    /\ pc = "idle"
    /\ \E gpu_info \in PredictGpus, game_name \in PredictGames,
          resolution \in ResolutionKeys, quality_preset \in QualityKeys :
           /\ call' = [op |-> "predict", gpu_info |-> gpu_info,
                       game_name |-> game_name, resolution |-> resolution,
                       quality_preset |-> quality_preset]
           /\ ret' = predict(games_db, gpu_info, game_name, resolution,
                             quality_preset)
    /\ pc' = "done"
    /\ UNCHANGED <<predict_calls, games_db>>

\* A client calls find_optimal_settings; the predict calls the search makes
\* are recorded in predict_calls.
FindOptimalSettings ==
    /\ pc = "idle"
    /\ \E gpu_info \in SearchGpus, game_name \in SearchGames,
          target_fps \in Targets, prefer_quality \in BOOLEAN :
           /\ call' = [op |-> "find_optimal_settings", gpu_info |-> gpu_info,
                       game_name |-> game_name, target_fps |-> target_fps,
                       prefer_quality |-> prefer_quality]
           /\ \E run \in {find_optimal_settings_run(games_db, gpu_info,
                              game_name, target_fps, prefer_quality)} :
                  /\ ret' = run.result
                  /\ predict_calls' = run.calls
    /\ pc' = "done"
    /\ UNCHANGED games_db

\* A client calls predict_all_presets.
PredictAllPresets ==
    /\ pc = "idle"
    /\ \E gpu_info \in SearchGpus, game_name \in SearchGames,
          resolution \in ResolutionKeys :
           /\ call' = [op |-> "predict_all_presets", gpu_info |-> gpu_info,
                       game_name |-> game_name, resolution |-> resolution]
           /\ ret' = predict_all_presets(games_db, gpu_info, game_name,
                                         resolution)
    /\ pc' = "done"
    /\ UNCHANGED <<predict_calls, games_db>>

\* A client calls predict_all_resolutions.
PredictAllResolutions ==
    /\ pc = "idle"
    /\ \E gpu_info \in SearchGpus, game_name \in SearchGames,
          quality_preset \in QualityKeys :
           /\ call' = [op |-> "predict_all_resolutions",
                       gpu_info |-> gpu_info, game_name |-> game_name,
                       quality_preset |-> quality_preset]
           /\ ret' = predict_all_resolutions(games_db, gpu_info, game_name,
                                             quality_preset)
    /\ pc' = "done"
    /\ UNCHANGED <<predict_calls, games_db>>

\* A client calls compare_gpus.
CompareGpusCall ==
    /\ pc = "idle"
    /\ \E gpu1_info \in CompareGpus, gpu2_name \in CompareNames,
          game_name \in CompareGames, resolution \in CompareResolutions,
          quality_preset \in CompareQualities :
           /\ call' = [op |-> "compare_gpus", gpu1_info |-> gpu1_info,
                       gpu2_name |-> gpu2_name, game_name |-> game_name,
                       resolution |-> resolution,
                       quality_preset |-> quality_preset]
           /\ ret' = compare_gpus(games_db, gpu1_info, gpu2_name, game_name,
                                  resolution, quality_preset)
    /\ pc' = "done"
    /\ UNCHANGED <<predict_calls, games_db>>

\* The client takes the result; the predictor is ready for the next call.
Return ==
    /\ pc = "done"
    /\ pc' = "idle"
    /\ call' = None
    /\ ret' = None
    /\ predict_calls' = <<>>
    /\ UNCHANGED games_db

Next ==
    \/ GetGpuPerformanceIndex
    \/ GetGameBaseFps
    \/ Predict
    \/ FindOptimalSettings
    \/ PredictAllPresets
    \/ PredictAllResolutions
    \/ CompareGpusCall
    \/ Return

Spec == Init /\ [][Next]_vars

-----------------------------------------------------------------------------
(* Properties.  A call has returned when pc is "done"; call holds its      *)
(* arguments and ret its result.                                           *)

Returned(op) == pc = "done" /\ call.op = op

Min(S) == CHOOSE x \in S : \A y \in S : x <= y
Max(S) == CHOOSE x \in S : \A y \in S : y <= x

InRange(prediction) ==
    /\ prediction.fps_1_percent_low <= prediction.fps_min
    /\ prediction.fps_min <= prediction.fps_average
    /\ prediction.fps_average <= prediction.fps_max

\* C1: every Prediction returned by predict, whether or not the processor
\* name, the game name, the resolution key and the quality key are
\* recognised, has fps_1_percent_low <= fps_min <= fps_average <= fps_max;
\* so has the Prediction inside every search result.
C1_RangeInvariant ==
    /\ Returned("predict") => InRange(ret)
    /\ Returned("find_optimal_settings") => InRange(ret.prediction)

\* predict has returned for an unknown processor, an unknown game and
\* unrecognised resolution and quality keys, with four distinct values.
C1_Witness ==
    /\ Returned("predict")
    /\ call.gpu_info.name = "Unknown GPU XYZ"
    /\ call.game_name = "Unknown Title 2099"
    /\ call.resolution = "800x600"
    /\ call.quality_preset = "custom"
    /\ ret.fps_1_percent_low < ret.fps_min
    /\ ret.fps_min < ret.fps_average
    /\ ret.fps_average < ret.fps_max

\* A resolved factor as a whole number: the value of the table item, or
\* the default when there is none (item 0).
ValueAt(table, i, default) == IF i # 0 THEN table[i].value ELSE default

ResolutionItem(resolution) ==
    IF HasKey(RESOLUTION_MULTIPLIERS, resolution)
    THEN CHOOSE i \in 1..Len(RESOLUTION_MULTIPLIERS) :
             RESOLUTION_MULTIPLIERS[i].name = resolution
    ELSE 0

QualityItem(quality) ==
    IF \E i \in 1..Len(QUALITY_MULTIPLIERS) :
           Chars(QUALITY_MULTIPLIERS[i].name) = lower(quality)
    THEN CHOOSE i \in 1..Len(QUALITY_MULTIPLIERS) :
             Chars(QUALITY_MULTIPLIERS[i].name) = lower(quality)
    ELSE 0

\* The four resolved values of a predict call c as whole numbers: the game
\* baseline, the index and the resolution factor in hundredths, the quality
\* factor in tenths (every quality factor is a whole number of tenths).
\* Their product is rawFps, as a real number, in units of 10^-5.
RawParts(c) ==
    get_game_base_fps(c.game_name)
      * ValueAt(GPU_PERFORMANCE_INDEX, GpuMatch(c.gpu_info.name), 50)
      * ValueAt(RESOLUTION_MULTIPLIERS, ResolutionItem(c.resolution), 100)
      * (ValueAt(QUALITY_MULTIPLIERS, QualityItem(c.quality_preset), 100)
           \div 10)

\* floor(num/den * P/10^5) over the real numbers, within 32 bits.
RealFloor(P, num, den) ==
    (P \div (den * 10^5)) * num + ((P % (den * 10^5)) * num) \div (den * 10^5)

\* rawFps as predict computes it: the double-precision product, taken left
\* to right, of the four resolved values.
RawFps(c) ==
    FMul(FMul(FMul(FromInt(get_game_base_fps(c.game_name)),
                   get_gpu_performance_index(c.gpu_info.name)),
              get_resolution_multiplier(c.resolution)),
         get_quality_multiplier(c.quality_preset))

WithinOneBelow(n, floor) == n = floor \/ n = floor - 1

\* The fields of prediction p are derived from the double raw, and lie
\* within one below the floors of the real number parts / 10^5.
DerivedFrom(p, raw, parts) ==
    /\ p.fps_average = FTrunc(raw)
    /\ p.fps_min = FTrunc(FMul(raw, FromRatio(75, 100)))
    /\ p.fps_max = FTrunc(FMul(raw, FromRatio(115, 100)))
    /\ p.fps_1_percent_low = FTrunc(FMul(raw, FromRatio(60, 100)))
    /\ WithinOneBelow(p.fps_average, RealFloor(parts, 1, 1))
    /\ WithinOneBelow(p.fps_min, RealFloor(parts, 3, 4))
    /\ WithinOneBelow(p.fps_max, RealFloor(parts, 23, 20))
    /\ WithinOneBelow(p.fps_1_percent_low, RealFloor(parts, 3, 5))

MatchedConfidence(gpu_matched, game_matched) ==
    IF gpu_matched /\ game_matched THEN "high"
    ELSE IF gpu_matched \/ game_matched THEN "medium"
    ELSE "low"

\* C3: the confidence of a Prediction is "high" exactly when the processor
\* index and the game baseline were both matched in their tables (by any
\* rule of the resolvers), "medium" exactly when one of them was, and "low"
\* exactly when neither was.
C3_ConfidenceFollowsResolution ==
    Returned("predict") =>
        ret.confidence = MatchedConfidence(GpuMatch(call.gpu_info.name) # 0,
                                           GameMatch(call.game_name) # 0)

\* predict has returned for a known processor and a game name that contains
\* a table name: the baseline is the table's, the confidence is not "high".
C3_Witness ==
    /\ Returned("predict")
    /\ call.gpu_info.name = "NVIDIA GeForce RTX 3070"
    /\ call.game_name = "Fortnite Deluxe Edition"
    /\ GameMatch(call.game_name) # 0
    /\ get_game_base_fps(call.game_name) = 120
    /\ ret.confidence = "medium"

\* The items of GPU_PERFORMANCE_INDEX whose pattern is a substring of the
\* name when both are lowercased.
PatternHits(gpu_name) ==
    {i \in 1..Len(GPU_PERFORMANCE_INDEX) :
        Contains(lower(GPU_PERFORMANCE_INDEX[i].name), lower(gpu_name))}

\* C4: the processor index returned is the multiplier of the first pattern,
\* in the order of the table, that is a case-insensitive substring of the
\* name, and 0.50 when no pattern is; the call returns for every name.
C4_FirstPatternWins ==
    Returned("_get_gpu_performance_index") =>
        ret = IF PatternHits(call.gpu_name) = {} THEN FromRatio(50, 100)
              ELSE FromRatio(
                       GPU_PERFORMANCE_INDEX[
                           Min(PatternHits(call.gpu_name))].value, 100)

\* The index has been resolved for a name holding two patterns, the one
\* that comes first in the table standing second in the name.
C4_Witness ==
    /\ Returned("_get_gpu_performance_index")
    /\ call.gpu_name = "RTX 3060 vs RTX 4090"
    /\ Cardinality(PatternHits(call.gpu_name)) = 2
    /\ ret = FromRatio(280, 100)

\* The three stages of game-baseline resolution as sets of table items.
ExactHits(game_name) ==
    {i \in 1..Len(GAME_BASE_FPS) : GAME_BASE_FPS[i].name = game_name}
CaselessHits(game_name) ==
    {i \in 1..Len(GAME_BASE_FPS) :
        lower(GAME_BASE_FPS[i].name) = lower(game_name)}
SubstringHits(game_name) ==
    {i \in 1..Len(GAME_BASE_FPS) :
        \/ Contains(lower(GAME_BASE_FPS[i].name), lower(game_name))
        \/ Contains(lower(game_name), lower(GAME_BASE_FPS[i].name))}

ThreeStageBaseline(game_name) ==
    IF ExactHits(game_name) # {}
    THEN GAME_BASE_FPS[Min(ExactHits(game_name))].value
    ELSE IF CaselessHits(game_name) # {}
    THEN GAME_BASE_FPS[Min(CaselessHits(game_name))].value
    ELSE IF SubstringHits(game_name) # {}
    THEN GAME_BASE_FPS[Min(SubstringHits(game_name))].value
    ELSE 60

\* No name of the game table contains another one, cases ignored: a name
\* that equals a table name up to case has no earlier substring hit.
NoTableNameInAnother ==
    \A i, j \in 1..Len(GAME_BASE_FPS) :
        i # j => ~Contains(lower(GAME_BASE_FPS[i].name),
                           lower(GAME_BASE_FPS[j].name))

\* C5: the game baseline returned equals the result of the three stages
\* tried in order over the built-in table: case-sensitive exact match,
\* case-insensitive exact match, substring match in either direction, the
\* first hit in table order winning within a stage, and 60 when nothing
\* matches.
C5_ThreeStageResolution ==
    /\ NoTableNameInAnother
    /\ Returned("_get_game_base_fps") =>
           ret = ThreeStageBaseline(call.game_name)

\* The baseline has been resolved for a name that contains two table names:
\* the one first in the table gives the result.
C5_Witness ==
    /\ Returned("_get_game_base_fps")
    /\ call.game_name = "Play Fortnite or Valorant"
    /\ Cardinality(SubstringHits(call.game_name)) = 2
    /\ ExactHits(call.game_name) = {}
    /\ ret = 120

\* The grid of the search in the scan order of prefer_quality: position 1
\* is 3840x2160 ultra, position 16 is 1280x720 low.
GridSize == Len(resolutions) * Len(presets)
GridRes(k) == resolutions[((k - 1) \div Len(presets)) + 1]
GridPreset(k) == presets[((k - 1) % Len(presets)) + 1]

\* fps_average of predict at every grid position for the search call c.
GridAverages(c) ==
    SubSeq([k \in 1..GridSize |->
               predict(games_db, c.gpu_info, c.game_name,
                       GridRes(k), GridPreset(k)).fps_average],
           1, GridSize)

\* The grid positions that reach the target.
Satisfying(averages, target_fps) ==
    {k \in 1..GridSize : averages[k] >= target_fps}

IndexIn(seq, x) == CHOOSE i \in 1..Len(seq) : seq[i] = x

\* When some position satisfies (sat is not empty), result r is the first
\* of the satisfying positions sat in the scan order
\* 3840x2160 .. 1280x720, ultra .. low; no satisfying position has a higher
\* resolution, none of its resolution has a higher quality.
FirstSatisfying(r, sat) ==
    sat # {} =>
    /\ r.resolution = GridRes(Min(sat))
    /\ r.quality_preset = GridPreset(Min(sat))
    /\ \A k \in sat :
           IndexIn(resolutions, r.resolution)
               <= IndexIn(resolutions, GridRes(k))
    /\ \A k \in sat :
           GridRes(k) = r.resolution =>
               IndexIn(presets, r.quality_preset)
                   <= IndexIn(presets, GridPreset(k))

\* C6: with prefer_quality the search returns the first (resolution,
\* quality) pair, scanning resolutions 3840x2160, 2560x1440, 1920x1080,
\* 1280x720 and within each qualities ultra, high, medium, low, whose
\* fps_average reaches the target: the highest resolution that has a
\* satisfying quality and, within it, the highest satisfying quality.
C6_QualityFirstHit ==
    (Returned("find_optimal_settings") /\ call.prefer_quality) =>
        FirstSatisfying(ret, Satisfying(GridAverages(call), call.target_fps))

\* A quality-priority search has returned 2560x1440 at medium after five
\* pairs missed the target.
C6_Witness ==
    /\ Returned("find_optimal_settings")
    /\ call.prefer_quality
    /\ ret.resolution = "2560x1440"
    /\ ret.quality_preset = "medium"
    /\ Len(predict_calls) = 7
    /\ "warning" \notin DOMAIN ret

\* The pairs in the scan order of the performance-priority search: position
\* 1 is 1280x720 low, position 16 is 3840x2160 ultra.
PerformanceOrder ==
    SubSeq([k \in 1..GridSize |->
               <<GridRes(GridSize + 1 - k), GridPreset(GridSize + 1 - k)>>],
           1, GridSize)

\* The positions of PerformanceOrder that reach the target.
PerformanceHits(averages, target_fps) ==
    {k \in 1..GridSize : averages[GridSize + 1 - k] >= target_fps}

LastHit(r, hits) ==
    hits # {} =>
        /\ r.resolution = PerformanceOrder[Max(hits)][1]
        /\ r.quality_preset = PerformanceOrder[Max(hits)][2]

LowestWithWarning(r, c, sat) ==
    sat = {} =>
    /\ r.resolution = "1280x720"
    /\ r.quality_preset = "low"
    /\ r.prediction = predict(games_db, c.gpu_info, c.game_name,
                              "1280x720", "low")
    /\ "warning" \in DOMAIN r
    /\ r.warning # ""

\* C8: in either mode, when no combination of the grid reaches the target
\* the search returns 1280x720, low, the Prediction of exactly that
\* configuration and a non-empty warning; the call returns.
C8_UnattainableTarget ==
    Returned("find_optimal_settings") =>
        LowestWithWarning(ret, call,
                          Satisfying(GridAverages(call), call.target_fps))

\* The quality-priority search for 240 FPS in Cyberpunk 2077 on a GTX 1060
\* has returned the lowest configuration with a warning.
C8_Witness ==
    /\ Returned("find_optimal_settings")
    /\ call.prefer_quality
    /\ call.gpu_info.name = "NVIDIA GeForce GTX 1060"
    /\ call.game_name = "Cyberpunk 2077"
    /\ call.target_fps = 240
    /\ ret.resolution = "1280x720"
    /\ ret.quality_preset = "low"
    /\ ret.warning = "Cannot achieve 240 FPS even at lowest settings"

\* C9: the result of a search carries a warning exactly when its prediction
\* has fps_average < target_fps; a result without a warning has
\* fps_average >= target_fps.
C9_WarningIffBelowTarget ==
    Returned("find_optimal_settings") =>
        (("warning" \in DOMAIN ret)
             <=> (ret.prediction.fps_average < call.target_fps))

\* A performance-priority search has returned a warning for a target above
\* every prediction of the grid.
C9_Witness ==
    /\ Returned("find_optimal_settings")
    /\ ~call.prefer_quality
    /\ call.target_fps = 100000
    /\ "warning" \in DOMAIN ret
    /\ ret.prediction.fps_average < call.target_fps

Range(seq) == {seq[i] : i \in 1..Len(seq)}

\* C10: for every processor, game, target (zero, negative and unreachable
\* ones too) and mode the search returns, after at most one predict call
\* per grid combination and one for the fallback, a result whose resolution
\* and quality are grid values and whose prediction is the Prediction of
\* exactly that pair for the processor and game of the call.
C10_ResultIsGridPrediction ==
    Returned("find_optimal_settings") =>
        /\ Len(predict_calls) <= GridSize + 1
        /\ ret.resolution \in Range(resolutions)
        /\ ret.quality_preset \in Range(presets)
        /\ ret.prediction = predict(games_db, call.gpu_info, call.game_name,
                                    ret.resolution, ret.quality_preset)

\* A search with a negative target has returned the top of the grid with
\* its prediction.
C10_Witness ==
    /\ Returned("find_optimal_settings")
    /\ call.target_fps < 0
    /\ ret.resolution = "3840x2160"
    /\ ret.quality_preset = "ultra"
    /\ ret.prediction.resolution = "3840x2160"
    /\ ret.prediction.quality_preset = "ultra"

\* The resolved index of a processor name in hundredths, read off the table.
IndexHundredths(gpu_name) ==
    ValueAt(GPU_PERFORMANCE_INDEX, GpuMatch(gpu_name), 50)

\* The fps_average predict computes for a processor name, a game, a
\* resolution and a quality.
AverageOf(gpu_name, game_name, resolution, quality_preset) ==
    fps_average(predicted_fps(get_game_base_fps(game_name),
                              get_gpu_performance_index(gpu_name),
                              get_resolution_multiplier(resolution),
                              get_quality_multiplier(quality_preset)))

\* The indices of the processors predict is called with.
PredictGpuIndex ==
    {<<g, IndexHundredths(g.name)>> : g \in PredictGpus}

\* Prediction p of call c has an average at least that which each of
\* the processors `slower' gets for the same game, resolution and quality.
AtLeastThoseOf(p, c, db, slower) ==
    \A g2 \in slower :
        p.fps_average >=
            AverageOf(g2.name, c.game_name, c.resolution, c.quality_preset)

LowerProcessors(index) ==
    {gi[1] : gi \in {x \in PredictGpuIndex : x[2] < index}}

\* C11: for two processor names whose resolved indices satisfy
\* index(g1) > index(g2) and identical game, resolution and quality,
\* predict(g1).fps_average >= predict(g2).fps_average.
C11_MonotoneByProcessor ==
    Returned("predict") =>
        AtLeastThoseOf(ret, call, games_db,
                       LowerProcessors(IndexHundredths(call.gpu_info.name)))

\* predict has returned for an RTX 4090 a higher average than an RTX 3070
\* gets for the same game and settings.
C11_Witness ==
    /\ Returned("predict")
    /\ call.gpu_info.name = "NVIDIA GeForce RTX 4090"
    /\ call.game_name = "Cyberpunk 2077"
    /\ call.resolution = "1920x1080"
    /\ call.quality_preset = "high"
    /\ ret.fps_average >
           AverageOf("NVIDIA GeForce RTX 3070", "Cyberpunk 2077",
                     "1920x1080", "high")

StrictlyDecreasing(seq) == \A k \in 1..(Len(seq) - 1) : seq[k] > seq[k + 1]

\* The averages predict computes for the processor, game and quality of
\* call c at each of the resolutions res, in their order.
AveragesByResolution(c, res) ==
    [k \in 1..Len(res) |->
        AverageOf(c.gpu_info.name, c.game_name, res[k], c.quality_preset)]

\* Value v stands at the position of key in keys within the strictly
\* decreasing sequence averages.
InStrictChain(v, key, keys, averages) ==
    /\ v = averages[IndexIn(keys, key)]
    /\ StrictlyDecreasing(averages)

CommonResolutions == <<"1920x1080", "2560x1440", "3840x2160">>

\* C12: for every processor (matched or defaulted), every game (matched or
\* defaulted) and every quality key, the fps_average at 1920x1080 is
\* strictly greater than at 2560x1440, which is strictly greater than at
\* 3840x2160, integer truncation included.
C12_MonotoneByResolution ==
    (Returned("predict") /\ call.resolution \in Range(CommonResolutions)) =>
        InStrictChain(ret.fps_average, call.resolution, CommonResolutions,
                      AveragesByResolution(call, CommonResolutions))

\* predict has returned for the processor of lowest index, the game of
\* lowest baseline and the lowest quality factor at 2560x1440: 2 frames per
\* second, between the 4 of 1920x1080 and the 1 of 3840x2160.
C12_Witness ==
    /\ Returned("predict")
    /\ call.gpu_info.name = "NVIDIA GeForce GTX 1050"
    /\ call.game_name = "Alan Wake 2"
    /\ call.quality_preset = "extreme"
    /\ call.resolution = "2560x1440"
    /\ ret.fps_average = 2
    /\ AverageOf("NVIDIA GeForce GTX 1050", "Alan Wake 2", "1920x1080",
                 "extreme") = 4
    /\ AverageOf("NVIDIA GeForce GTX 1050", "Alan Wake 2", "3840x2160",
                 "extreme") = 1

\* The averages predict computes for the processor, game and resolution of
\* call c at each of the qualities, in their order.
AveragesByQuality(c, qualities) ==
    [k \in 1..Len(qualities) |->
        AverageOf(c.gpu_info.name, c.game_name, c.resolution, qualities[k])]

QualitiesDescendingFps == <<"low", "medium", "high", "ultra">>

\* C13: for every fixed processor, game and resolution key (the processor
\* of lowest index, the game of lowest baseline and the resolution of
\* lowest factor included), fps_average at low > medium > high > ultra, each
\* strictly, integer truncation included.
C13_MonotoneByQuality ==
    (Returned("predict")
        /\ call.quality_preset \in Range(QualitiesDescendingFps)) =>
        InStrictChain(ret.fps_average, call.quality_preset,
                      QualitiesDescendingFps,
                      AveragesByQuality(call, QualitiesDescendingFps))

\* predict has returned for the processor of lowest index, the game of
\* lowest baseline and the resolution of lowest factor at medium: 3 frames
\* per second, under the 4 of low and over the 2 of high and the 1 of ultra.
C13_Witness ==
    /\ Returned("predict")
    /\ call.gpu_info.name = "NVIDIA GeForce GTX 1050"
    /\ call.game_name = "Alan Wake 2"
    /\ call.resolution = "5120x2160"
    /\ call.quality_preset = "medium"
    /\ ret.fps_average = 3
    /\ AveragesByQuality(call, QualitiesDescendingFps) = <<4, 3, 2, 1>>

\* The arguments of a comparison c as those of a predict call for the
\* second processor's name.
SecondCall(c) ==
    [gpu_info |-> GPUInfo(c.gpu2_name, 0), game_name |-> c.game_name,
     resolution |-> c.resolution, quality_preset |-> c.quality_preset]

\* Comparison r was made from prediction pred1 and, for the second
\* processor, from the double-precision product raw, whose integer part is
\* the floor of the real number parts / 10^5 or one less.
ComparedFrom(r, pred1, raw, parts) ==
    /\ r.gpu1_fps = pred1.fps_average
    /\ r.gpu2_fps = FTrunc(raw)
    /\ WithinOneBelow(r.gpu2_fps, RealFloor(parts, 1, 1))
    /\ r.fps_difference = r.gpu2_fps - r.gpu1_fps

\* C14: compare_gpus computes gpu1_fps as the fps_average of predict for
\* processor1, game, resolution and quality, gpu2_fps as the floor of
\* baseline x index(processor2Name) x resolution factor x quality factor
\* with the same resolvers and factors (a double-precision product, as in
\* predict), and returns fps_difference = gpu2_fps - gpu1_fps.
C14_ComparisonFigures ==
    Returned("compare_gpus") =>
        ComparedFrom(ret,
                     predict(games_db, call.gpu1_info, call.game_name,
                             call.resolution, call.quality_preset),
                     RawFps(SecondCall(call)), RawParts(SecondCall(call)))

\* An RTX 3070 has been compared with "RTX 4090" in Cyberpunk 2077 at the
\* default settings: 66 against 154 frames per second, 88 more.
C14_Witness ==
    /\ Returned("compare_gpus")
    /\ call.gpu1_info.name = "NVIDIA GeForce RTX 3070"
    /\ call.gpu2_name = "RTX 4090"
    /\ call.game_name = "Cyberpunk 2077"
    /\ call.resolution = "1920x1080"
    /\ call.quality_preset = "high"
    /\ ret.gpu1_fps = 66
    /\ ret.gpu2_fps = 154
    /\ ret.fps_difference = 88

\* Whether tenths / 10 is (difference / gpu1_fps) x 100 over the real
\* numbers, and whether it is that number rounded to one decimal place
\* (to either neighbour when it lies halfway between two).
IsExactPercentage(tenths, difference, gpu1_fps) ==
    tenths * gpu1_fps = 1000 * difference

IsRoundedPercentage(tenths, difference, gpu1_fps) ==
    2 * Abs(tenths * gpu1_fps - 1000 * difference) <= gpu1_fps

\* Differences for which the guarded case of the percentage is evaluated.
GuardedDifferences == {-3, 0, 5, 120}

\* C15 as stated: percentage_difference equals (fps_difference / gpu1_fps)
\* x 100 whenever gpu1_fps is non-zero, and 0 when gpu1_fps is 0.
C15_ExactPercentage ==
    Returned("compare_gpus") =>
        IF ret.gpu1_fps # 0
        THEN IsExactPercentage(ret.percentage_difference, ret.fps_difference,
                               ret.gpu1_fps)
        ELSE ret.percentage_difference = 0

\* C15, amended: percentage_difference equals (fps_difference / gpu1_fps)
\* x 100 rounded to one decimal place whenever gpu1_fps is non-zero, and
\* exactly 0, without a division, when gpu1_fps is 0.
C15_RoundedPercentage ==
    /\ Returned("compare_gpus") =>
           IF ret.gpu1_fps # 0
           THEN IsRoundedPercentage(ret.percentage_difference,
                                    ret.fps_difference, ret.gpu1_fps)
           ELSE ret.percentage_difference = 0
    /\ \A difference \in GuardedDifferences : percentage(difference, 0) = 0

\* An RTX 3070 has been compared with "RTX 4090": 88 frames more than 66 is
\* 133.33.. per cent, returned as 133.3.
C15_Witness ==
    /\ Returned("compare_gpus")
    /\ call.gpu1_info.name = "NVIDIA GeForce RTX 3070"
    /\ call.gpu2_name = "RTX 4090"
    /\ ret.gpu1_fps = 66
    /\ ret.fps_difference = 88
    /\ ret.percentage_difference = 1333

\* C16: compare_gpus returns faster_gpu = processor2Name when
\* fps_difference > 0 and processor1's name otherwise; when both processors
\* have equal predicted fps the result names processor1.
C16_FasterGpu ==
    Returned("compare_gpus") =>
        /\ ret.faster_gpu =
               IF ret.fps_difference > 0 THEN call.gpu2_name
               ELSE call.gpu1_info.name
        /\ (ret.gpu1_fps = ret.gpu2_fps) =>
               ret.faster_gpu = call.gpu1_info.name

\* An RTX 3070 has been compared with "RTX 3070": equal figures, and the
\* result names the first processor as the driver names it.
C16_Witness ==
    /\ Returned("compare_gpus")
    /\ call.gpu1_info.name = "NVIDIA GeForce RTX 3070"
    /\ call.gpu2_name = "RTX 3070"
    /\ ret.gpu1_fps = ret.gpu2_fps
    /\ ret.fps_difference = 0
    /\ ret.faster_gpu = "NVIDIA GeForce RTX 3070"
    /\ ret.faster_gpu # call.gpu2_name

\* The second processor of comparison c has a strictly greater resolved
\* index than the first.
SecondIndexGreater(c) ==
    IndexHundredths(c.gpu2_name) > IndexHundredths(c.gpu1_info.name)

\* C17 as stated: for every processor1, every processor2Name whose resolved
\* index is strictly greater than processor1's, and every game, resolution
\* and quality, compare_gpus yields faster_gpu = processor2Name and
\* percentage_difference > 0.
C17_GreaterIndexIsFaster ==
    (Returned("compare_gpus") /\ SecondIndexGreater(call)) =>
        /\ ret.faster_gpu = call.gpu2_name
        /\ ret.percentage_difference > 0

\* C17, amended: for every processor1, every processor2Name whose resolved
\* index is strictly greater than processor1's, and every game, resolution
\* and quality, gpu2_fps >= gpu1_fps; when gpu2_fps > gpu1_fps compare_gpus
\* yields faster_gpu = processor2Name and percentage_difference > 0, and
\* when integer truncation makes the two figures equal it yields
\* processor1's name and a percentage_difference of 0.
C17_GreaterIndexNotSlower ==
    (Returned("compare_gpus") /\ SecondIndexGreater(call)) =>
        /\ ret.gpu2_fps >= ret.gpu1_fps
        /\ (ret.gpu2_fps > ret.gpu1_fps) =>
               /\ ret.faster_gpu = call.gpu2_name
               /\ ret.percentage_difference > 0
        /\ (ret.gpu2_fps = ret.gpu1_fps) =>
               /\ ret.faster_gpu = call.gpu1_info.name
               /\ ret.percentage_difference = 0

\* A GTX 1050 (index 0.22) has been compared with "GTX 1050 Ti" (0.28) in
\* Alan Wake 2 at 5120x2160, extreme: both figures truncate to 1 and the
\* result names the GTX 1050.
C17_Witness ==
    /\ Returned("compare_gpus")
    /\ call.gpu1_info.name = "NVIDIA GeForce GTX 1050"
    /\ call.gpu2_name = "GTX 1050 Ti"
    /\ call.game_name = "Alan Wake 2"
    /\ call.resolution = "5120x2160"
    /\ call.quality_preset = "extreme"
    /\ SecondIndexGreater(call)
    /\ ret.gpu1_fps = 1
    /\ ret.gpu2_fps = 1
    /\ ret.faster_gpu = "NVIDIA GeForce GTX 1050"
    /\ ret.percentage_difference = 0

-----------------------------------------------------------------------------
(* One FPSPredictor shared by several callers.  Each caller is idle or     *)
(* holds the result of the call it made; pc, call, ret and predict_calls   *)
(* are kept per caller, games_db is the one database of the predictor's    *)
(* GameAnalyzer, which every call reads.  The four tables of the module    *)
(* are read by the resolvers and assigned nowhere in fps_predictor.py.     *)

NumCallers == 2
Callers == 1..NumCallers

SharedGpus ==
    {GPUInfo("NVIDIA GeForce RTX 3070", 8192),
     GPUInfo("NVIDIA GeForce GTX 1050", 2048)}

SharedGames == {"Cyberpunk 2077", "Unknown Title 2099"}

SharedQualities == {"high", "ultra"}

SharedInit ==
    /\ pc = [c \in Callers |-> "idle"]
    /\ call = [c \in Callers |-> None]
    /\ ret = [c \in Callers |-> None]
    /\ predict_calls = [c \in Callers |-> <<>>]
    /\ games_db = GAMES_DATABASE

\* Caller c gets result for the_call, made with the predict calls calls.
Completes(c, the_call, result, calls) ==
    /\ pc' = [pc EXCEPT ![c] = "done"]
    /\ call' = [call EXCEPT ![c] = the_call]
    /\ ret' = [ret EXCEPT ![c] = result]
    /\ predict_calls' = [predict_calls EXCEPT ![c] = calls]

\* A variant of CallerPredict in which predict registers a game it did not
\* find in the analyzer's database.
CallerPredict_RegistersGame(c) ==
    /\ pc[c] = "idle"
    /\ \E gpu_info \in SharedGpus, game_name \in SharedGames,
          quality_preset \in SharedQualities :
           /\ Completes(c, [op |-> "predict", gpu_info |-> gpu_info,
                            game_name |-> game_name,
                            resolution |-> "1920x1080",
                            quality_preset |-> quality_preset],
                        predict(games_db, gpu_info, game_name, "1920x1080",
                                quality_preset),
                        <<>>)
           /\ games_db' =
                  IF get_game_requirements(games_db, game_name).found
                  THEN games_db
                  ELSE Append(games_db,
                              [name |-> game_name, recommended_vram |-> 8192,
                               supports_dlss |-> FALSE,
                               supports_fsr |-> FALSE])

CallerPredict(c) ==
    /\ pc[c] = "idle"
    /\ \E gpu_info \in SharedGpus, game_name \in SharedGames,
          quality_preset \in SharedQualities :
           Completes(c, [op |-> "predict", gpu_info |-> gpu_info,
                         game_name |-> game_name,
                         resolution |-> "1920x1080",
                         quality_preset |-> quality_preset],
                     predict(games_db, gpu_info, game_name, "1920x1080",
                             quality_preset),
                     <<>>)
    /\ UNCHANGED games_db

CallerPredictAllPresets(c) ==
    /\ pc[c] = "idle"
    /\ Completes(c, [op |-> "predict_all_presets",
                     gpu_info |-> GPUInfo("NVIDIA GeForce GTX 1050", 2048),
                     game_name |-> "Unknown Title 2099",
                     resolution |-> "1920x1080"],
                 predict_all_presets(games_db,
                     GPUInfo("NVIDIA GeForce GTX 1050", 2048),
                     "Unknown Title 2099", "1920x1080"),
                 <<>>)
    /\ UNCHANGED games_db

CallerPredictAllResolutions(c) ==
    /\ pc[c] = "idle"
    /\ Completes(c, [op |-> "predict_all_resolutions",
                     gpu_info |-> GPUInfo("NVIDIA GeForce RTX 3070", 8192),
                     game_name |-> "Cyberpunk 2077",
                     quality_preset |-> "high"],
                 predict_all_resolutions(games_db,
                     GPUInfo("NVIDIA GeForce RTX 3070", 8192),
                     "Cyberpunk 2077", "high"),
                 <<>>)
    /\ UNCHANGED games_db

CallerFindOptimalSettings(c) ==
    /\ pc[c] = "idle"
    /\ \E prefer_quality \in BOOLEAN :
         \E run \in {find_optimal_settings_run(games_db,
                         GPUInfo("NVIDIA GeForce GTX 1050", 2048),
                         "Unknown Title 2099", 60, prefer_quality)} :
             Completes(c, [op |-> "find_optimal_settings",
                           gpu_info |->
                               GPUInfo("NVIDIA GeForce GTX 1050", 2048),
                           game_name |-> "Unknown Title 2099",
                           target_fps |-> 60,
                           prefer_quality |-> prefer_quality],
                       run.result, run.calls)
    /\ UNCHANGED games_db

CallerCompareGpus(c) ==
    /\ pc[c] = "idle"
    /\ \E gpu1_info \in SharedGpus :
           Completes(c, [op |-> "compare_gpus", gpu1_info |-> gpu1_info,
                         gpu2_name |-> "RTX 4090",
                         game_name |-> "Unknown Title 2099",
                         resolution |-> "1920x1080",
                         quality_preset |-> "high"],
                     compare_gpus(games_db, gpu1_info, "RTX 4090",
                                  "Unknown Title 2099", "1920x1080", "high"),
                     <<>>)
    /\ UNCHANGED games_db

\* Caller c takes its result and is ready for its next call.
CallerReturn(c) ==
    /\ pc[c] = "done"
    /\ pc' = [pc EXCEPT ![c] = "idle"]
    /\ call' = [call EXCEPT ![c] = None]
    /\ ret' = [ret EXCEPT ![c] = None]
    /\ predict_calls' = [predict_calls EXCEPT ![c] = <<>>]
    /\ UNCHANGED games_db

SharedNext ==
    \E c \in Callers :
        \/ CallerPredict(c)
        \/ CallerPredictAllPresets(c)
        \/ CallerPredictAllResolutions(c)
        \/ CallerFindOptimalSettings(c)
        \/ CallerCompareGpus(c)
        \/ CallerReturn(c)

SharedSpec == SharedInit /\ [][SharedNext]_vars

\* Caller c holds the result of a predict call.
HoldsPrediction(c) == pc[c] = "done" /\ call[c].op = "predict"

KeysOf(mapping) == [k \in 1..Len(mapping) |-> mapping[k].key]

\* C19: predict_all_presets returns a mapping with exactly the keys low,
\* medium, high, ultra in that order, and predict_all_resolutions a mapping
\* with exactly the keys 1920x1080, 2560x1440, 3840x2160 in that order; each
\* value equals the Prediction predict returns for that key with the other
\* arguments unchanged.
C19_AllPresetsAllResolutions ==
    /\ Returned("predict_all_presets") =>
           /\ KeysOf(ret) = <<"low", "medium", "high", "ultra">>
           /\ \A k \in 1..Len(ret) :
                  ret[k].value =
                      predict(games_db, call.gpu_info, call.game_name,
                              call.resolution, ret[k].key)
    /\ Returned("predict_all_resolutions") =>
           /\ KeysOf(ret) = <<"1920x1080", "2560x1440", "3840x2160">>
           /\ \A k \in 1..Len(ret) :
                  ret[k].value =
                      predict(games_db, call.gpu_info, call.game_name,
                              ret[k].key, call.quality_preset)

\* predict_all_presets has returned for an RTX 3070 in Cyberpunk 2077 at
\* 2560x1440: four predictions at that resolution, from low to ultra, with
\* falling averages.
C19_Witness ==
    /\ Returned("predict_all_presets")
    /\ call.gpu_info.name = "NVIDIA GeForce RTX 3070"
    /\ call.game_name = "Cyberpunk 2077"
    /\ call.resolution = "2560x1440"
    /\ Len(ret) = 4
    /\ ret[1].key = "low"
    /\ ret[4].key = "ultra"
    /\ ret[1].value.quality_preset = "low"
    /\ ret[1].value.resolution = "2560x1440"
    /\ ret[1].value.fps_average > ret[4].value.fps_average

\* The entry of the game catalog db for a game name, found as the analyzer
\* looks it up: the entry of that name, else the first entry of that name
\* up to case, else the first entry whose name contains the input, cases
\* ignored; 0 when there is none.  g is the lowercased input.
CatalogExact(db, game_name) ==
    {k \in 1..Len(db) : db[k].name = game_name}
CatalogCaseless(db, g) ==
    {k \in 1..Len(db) : lower(db[k].name) = g}
CatalogPartial(db, g) ==
    {k \in 1..Len(db) : Contains(g, lower(db[k].name))}
MinOrZero(S) == IF S = {} THEN 0 ELSE Min(S)
CatalogEntry(db, game_name, g) ==
    IF CatalogExact(db, game_name) # {} THEN Min(CatalogExact(db, game_name))
    ELSE IF CatalogCaseless(db, g) # {} THEN Min(CatalogCaseless(db, g))
    ELSE MinOrZero(CatalogPartial(db, g))

OtherNotes == {DlssNote, FsrNote, FourKNote, LowerPresetNote}

\* The notes begin with the stutter-risk note for the two memory sizes and
\* hold no other such note, or hold no such note at all.
VramNoteFirst(notes, vram_total, recommended_vram) ==
    /\ notes # <<>>
    /\ notes[1] = VramNote(vram_total, recommended_vram)
    /\ \A k \in 2..Len(notes) : notes[k] \in OtherNotes
NoVramNote(notes) == \A k \in 1..Len(notes) : notes[k] \in OtherNotes

\* The notes of a prediction for a processor with vram_total megabytes,
\* given the catalog db and the entry (0 for none) of the game in it.
VramNoteAsEntrySays(notes, vram_total, db, entry) ==
    IF entry # 0 /\ vram_total < db[entry].recommended_vram
    THEN VramNoteFirst(notes, vram_total, db[entry].recommended_vram)
    ELSE NoVramNote(notes)

\* C20: predict appends the VRAM stutter-risk note, as the first note,
\* exactly when the game catalog has an entry for the game and the
\* processor's vram_total is strictly less than that entry's
\* recommended_vram; when vram_total >= recommended_vram or the game is not
\* in the catalog no VRAM note appears.
C20_VramNote ==
    Returned("predict") =>
        VramNoteAsEntrySays(ret.notes, call.gpu_info.vram_total, games_db,
                            CatalogEntry(games_db, call.game_name,
                                         lower(call.game_name)))

\* predict has returned for an RTX 3070 with 8192 MB in Alan Wake 2, which
\* recommends 16384 MB: the stutter-risk note comes first, another follows.
C20_Witness ==
    /\ Returned("predict")
    /\ call.gpu_info = GPUInfo("NVIDIA GeForce RTX 3070", 8192)
    /\ call.game_name = "Alan Wake 2"
    /\ Len(ret.notes) >= 2
    /\ ret.notes[1] = "VRAM (8192MB) is below recommended (16384MB). May experience stuttering."
    /\ ret.notes[2] = DlssNote

\* The positions of the notes of a sequence that are among the given ones.
PositionsOf(notes, wanted) == {k \in 1..Len(notes) : notes[k] \in wanted}

\* A processor is RTX-class when its upper-cased name contains "RTX".
IsRtxClass(gpu_name) == Contains(Chars("RTX"), upper(gpu_name))

\* The upscaling notes among notes are what the catalog entry (0 for none)
\* and the processor call for: the DLSS note for a DLSS game on an RTX-class
\* processor, otherwise the FSR note for an FSR game, and never two.
UpscalingNoteAsEntrySays(notes, gpu_name, db, entry) ==
    LET dlss == entry # 0 /\ db[entry].supports_dlss /\ IsRtxClass(gpu_name)
        fsr == entry # 0 /\ ~dlss /\ db[entry].supports_fsr
    IN  /\ (PositionsOf(notes, {DlssNote}) # {}) <=> dlss
        /\ (PositionsOf(notes, {FsrNote}) # {}) <=> fsr
        /\ Cardinality(PositionsOf(notes, {DlssNote, FsrNote})) <= 1

\* C21: predict appends the DLSS note exactly when the game's catalog entry
\* supports DLSS and the processor is RTX-class, otherwise the FSR note
\* exactly when the entry supports FSR; at most one upscaling note is ever
\* appended and none when the game is not in the catalog.
C21_UpscalingNote ==
    Returned("predict") =>
        UpscalingNoteAsEntrySays(ret.notes, call.gpu_info.name, games_db,
                                 CatalogEntry(games_db, call.game_name,
                                              lower(call.game_name)))

\* predict has returned for a GTX 1050 in Cyberpunk 2077, which supports
\* both technologies: the FSR note is there and the DLSS note is not.
C21_Witness ==
    /\ Returned("predict")
    /\ call.gpu_info.name = "NVIDIA GeForce GTX 1050"
    /\ call.game_name = "Cyberpunk 2077"
    /\ PositionsOf(ret.notes, {FsrNote}) # {}
    /\ PositionsOf(ret.notes, {DlssNote}) = {}

\* The place of a note in the order predict appends its notes: the
\* stutter-risk note (the only one whose text varies), an upscaling note,
\* the 4K note, the lower-preset note.
NoteRank(note) ==
    IF note \in {DlssNote, FsrNote} THEN 2
    ELSE IF note = FourKNote THEN 3
    ELSE IF note = LowerPresetNote THEN 4
    ELSE 1
InNoteOrder(notes) ==
    \A k \in 1..(Len(notes) - 1) : NoteRank(notes[k]) < NoteRank(notes[k + 1])

\* C22: predict appends the 4K note exactly when resolution is 3840x2160
\* or 5120x2160 and the lower-preset note exactly when quality (in any
\* letter case) is ultra and fps_average < 60, whatever the other notes
\* are and whether or not the game is in the catalog; the notes of every
\* prediction appear in the order VRAM note, upscaling note, 4K note,
\* lower-preset note.
C22_ResolutionAndQualityNotes ==
    Returned("predict") =>
        /\ (PositionsOf(ret.notes, {FourKNote}) # {})
             <=> call.resolution \in {"3840x2160", "5120x2160"}
        /\ (PositionsOf(ret.notes, {LowerPresetNote}) # {})
             <=> (lower(call.quality_preset) = Chars("ultra")
                    /\ ret.fps_average < 60)
        /\ InNoteOrder(ret.notes)

\* predict has returned four notes, one of each kind in order, for a game
\* in the catalog, and two notes for a game that is not in it.
C22_Witness ==
    /\ Returned("predict")
    /\ call.resolution = "3840x2160"
    /\ call.quality_preset = "ultra"
    /\ \/ /\ call.game_name = "Alan Wake 2"
          /\ call.gpu_info = GPUInfo("NVIDIA GeForce RTX 3070", 8192)
          /\ Len(ret.notes) = 4
          /\ ret.notes[2] = DlssNote
          /\ ret.notes[3] = FourKNote
          /\ ret.notes[4] = LowerPresetNote
       \/ /\ call.game_name = "Unknown Title 2099"
          /\ call.gpu_info = GPUInfo("Unknown GPU XYZ", 0)
          /\ ret.notes = <<FourKNote, LowerPresetNote>>

\* The four fps fields of a prediction, and those predict computes for a
\* processor name, a game, a resolution and a quality.
FpsFields(p) == <<p.fps_min, p.fps_max, p.fps_average, p.fps_1_percent_low>>
FpsFieldsOf(fps) ==
    <<fps_min(fps), fps_max(fps), fps_average(fps), fps_1_percent_low(fps)>>
FpsFieldsFor(gpu_name, game_name, resolution, quality_preset) ==
    FpsFieldsOf(predicted_fps(get_game_base_fps(game_name),
                              get_gpu_performance_index(gpu_name),
                              get_resolution_multiplier(resolution),
                              get_quality_multiplier(quality_preset)))

\* A resolution key is recognized when it is a key of the resolution
\* table, a quality key when its lower-cased form is a key of the quality
\* table.
RecognizedResolution(resolution) == HasKey(RESOLUTION_MULTIPLIERS, resolution)
RecognizedQuality(quality) ==
    \E i \in 1..Len(QUALITY_MULTIPLIERS) :
        Chars(QUALITY_MULTIPLIERS[i].name) = lower(quality)

\* C23: an unrecognized resolution key or an unrecognized quality key never
\* aborts predict and contributes a neutral factor of 1.0: predict returns a
\* prediction whose fps fields equal those for 1920x1080 when the resolution
\* is unrecognized, and those for high when the quality is unrecognized,
\* with all other arguments equal.
C23_NeutralFactor ==
    Returned("predict") =>
        /\ ~RecognizedResolution(call.resolution) =>
               FpsFields(ret) = FpsFieldsFor(call.gpu_info.name,
                                    call.game_name, "1920x1080",
                                    call.quality_preset)
        /\ ~RecognizedQuality(call.quality_preset) =>
               FpsFields(ret) = FpsFieldsFor(call.gpu_info.name,
                                    call.game_name, call.resolution, "high")

\* predict has returned for the unrecognized resolution 800x600 and the
\* unrecognized quality custom: an RTX 3070 in Cyberpunk 2077 gets the
\* figures of 1920x1080 at high.
C23_Witness ==
    /\ Returned("predict")
    /\ call.gpu_info.name = "NVIDIA GeForce RTX 3070"
    /\ call.game_name = "Cyberpunk 2077"
    /\ call.resolution = "800x600"
    /\ call.quality_preset = "custom"
    /\ ret.fps_average = 66
    /\ ret.fps_min = 49

\* Everything the four resolvers can return over the built-in tables: each
\* table value and the default (baseline 60, index 0.50, factor 1.0).
AllBaselines == {BaseFpsAt(i) : i \in 0..Len(GAME_BASE_FPS)}
AllIndices == {IndexAt(i) : i \in 0..Len(GPU_PERFORMANCE_INDEX)}
AllResolutionFactors == {get_resolution_multiplier(r) : r \in ResolutionKeys}
AllQualityFactors == {get_quality_multiplier(q) : q \in QualityKeys}

\* No combination of resolver results gives an fps_average below least.
EveryAverageAtLeast(least) ==
    \A base_fps \in AllBaselines, gpu_index \in AllIndices,
       res_multiplier \in AllResolutionFactors,
       quality_multiplier \in AllQualityFactors :
        fps_average(predicted_fps(base_fps, gpu_index, res_multiplier,
                                  quality_multiplier)) >= least

\* The predictions a returned call carries.
PredictionsOf(op, result) ==
    IF op = "predict" THEN {result}
    ELSE IF op = "find_optimal_settings" THEN {result.prediction}
    ELSE IF op \in {"predict_all_presets", "predict_all_resolutions"}
    THEN {result[k].value : k \in 1..Len(result)}
    ELSE {}

\* C24: every Prediction has fps_average > 0: over the built-in tables and
\* their defaults (index 0.50, baseline 60, factor 1.0) no combination of
\* processor, game, resolution and quality truncates to an fps_average of
\* 0, so the zero-denominator guard in compare_gpus is never taken.  (The
\* tables do not change: their combinations are checked before any call.)
C24_AveragePositive ==
    /\ pc = "idle" => EveryAverageAtLeast(1)
    /\ pc = "done" =>
           /\ \A p \in PredictionsOf(call.op, ret) : p.fps_average > 0
           /\ call.op = "compare_gpus" => ret.gpu1_fps > 0

\* predict has returned for the lowest figures of all four tables (GTX
\* 1050, Alan Wake 2, 5120x2160, extreme): the average is 1.
C24_Witness ==
    /\ Returned("predict")
    /\ call.gpu_info.name = "NVIDIA GeForce GTX 1050"
    /\ call.game_name = "Alan Wake 2"
    /\ call.resolution = "5120x2160"
    /\ call.quality_preset = "extreme"
    /\ ret.fps_average = 1
    /\ ret.fps_min = 0

-----------------------------------------------------------------------------
(* The game catalog and its extension.  The module-level GAMES_DATABASE   *)
(* is one dict object; every GameAnalyzer holds its own self.games_db.     *)
(* Here games_db[0] is the module-level table and games_db[a] the          *)
(* self.games_db of analyzer a; pc[a] tells whether analyzer a has not     *)
(* been constructed ("none"), holds what it copied ("built_in") or has     *)
(* been extended ("extended").                                             *)

NumAnalyzers == 2
Analyzers == 1..NumAnalyzers

\* A data dict with no items, and the entry of a games_db for a name and a
\* data dict.
EmptyDict == [key \in {} |-> 0]
Entry(name, requirements) == [name |-> name] @@ requirements

\* The names and data dicts the catalog is extended with: a name contained
\* in a built-in name, a built-in name; full data and an empty dict.
CustomNames == {"Ring", "Valorant"}
CustomRequirements ==
    {[recommended_vram |-> 12288, supports_dlss |-> FALSE,
      supports_fsr |-> TRUE],
     EmptyDict}

\* The contents of custom database files, as json.load gives them; a file
\* that is missing or is not JSON loads nothing.
CustomDatabases ==
    {<< >>,
     <<Entry("Ring", [recommended_vram |-> 2048])>>,
     <<Entry("Valorant", EmptyDict),
       Entry("Ring", [recommended_vram |-> 12288, supports_dlss |-> FALSE,
                      supports_fsr |-> TRUE])>>}

\* The names looked up.
LookupNames == CustomNames \cup {"Elden Ring", "valorant", "Tetris"}

\* db[name] = requirements for a dict in insertion order: the value of an
\* existing key is replaced where it stands, a new key goes to the end.
SetItem(db, name, requirements) ==
    IF \E k \in 1..Len(db) : db[k].name = name
    THEN [k \in 1..Len(db) |->
             IF db[k].name = name THEN Entry(name, requirements) ELSE db[k]]
    ELSE Append(db, Entry(name, requirements))

\* db.update(custom_db): the items of custom_db are set in their order.
RECURSIVE Update(_, _)
Update(db, custom_db) ==
    IF custom_db = << >> THEN db
    ELSE Update(SetItem(db, Head(custom_db).name,
                        [key \in DOMAIN Head(custom_db) \ {"name"} |->
                            Head(custom_db)[key]]),
                Tail(custom_db))

CatalogInit ==
    /\ pc = [a \in Analyzers |-> "none"]
    /\ call = None
    /\ ret = None
    /\ predict_calls = << >>
    /\ games_db = [a \in {0} \cup Analyzers |->
                      IF a = 0 THEN GAMES_DATABASE ELSE << >>]

\* GameAnalyzer(): self.games_db is a copy of the module-level table.
NewAnalyzer(a) ==
    /\ pc[a] = "none"
    /\ pc' = [pc EXCEPT ![a] = "built_in"]
    /\ games_db' = [games_db EXCEPT ![a] = games_db[0]]
    /\ call' = [op |-> "__init__", analyzer |-> a]
    /\ ret' = None
    /\ UNCHANGED predict_calls

\* GameAnalyzer(custom_database_path): the copy, updated with the file.
NewAnalyzerWithCustomDatabase(a) ==
    /\ pc[a] = "none"
    /\ \E custom_db \in CustomDatabases :
           /\ pc' = [pc EXCEPT ![a] = IF custom_db = << >> THEN "built_in"
                                      ELSE "extended"]
           /\ games_db' = [games_db EXCEPT
                              ![a] = Update(games_db[0], custom_db)]
           /\ call' = [op |-> "__init__", analyzer |-> a,
                       custom_db |-> custom_db]
    /\ ret' = None
    /\ UNCHANGED predict_calls

\* analyzer.add_game(name, requirements).
AddGame(a) ==
    /\ pc[a] # "none"
    /\ \E name \in CustomNames, requirements \in CustomRequirements :
           /\ games_db' = [games_db EXCEPT
                              ![a] = SetItem(games_db[a], name, requirements)]
           /\ call' = [op |-> "add_game", analyzer |-> a, name |-> name,
                       requirements |-> requirements]
    /\ pc' = [pc EXCEPT ![a] = "extended"]
    /\ ret' = None
    /\ UNCHANGED predict_calls

\* analyzer.get_game_requirements(game_name).
GetGameRequirements(a) ==
    /\ pc[a] # "none"
    /\ \E game_name \in LookupNames :
           /\ call' = [op |-> "get_game_requirements", analyzer |-> a,
                       game_name |-> game_name]
           /\ ret' = get_game_requirements(games_db[a], game_name)
    /\ UNCHANGED <<pc, predict_calls, games_db>>

CatalogNext ==
    \E a \in Analyzers :
        \/ NewAnalyzer(a)
        \/ NewAnalyzerWithCustomDatabase(a)
        \/ AddGame(a)
        \/ GetGameRequirements(a)

CatalogSpec == CatalogInit /\ [][CatalogNext]_vars

\* What get_game_requirements returns for the entry of a name with a data
\* dict: the name and the items read, with the defaults of those missing.
RequirementsOf(name, requirements) ==
    [found |-> TRUE, name |-> name,
     recommended_vram |-> DataGet(requirements, "recommended_vram", 0),
     supports_dlss |-> DataGet(requirements, "supports_dlss", FALSE),
     supports_fsr |-> DataGet(requirements, "supports_fsr", FALSE)]

\* The module-level table is as it was written, and every analyzer that
\* has not been extended answers every lookup as the built-in table does.
BuiltInUntouched ==
    /\ games_db[0] = GAMES_DATABASE
    /\ \A a \in Analyzers :
           pc[a] = "built_in" =>
               \A game_name \in LookupNames :
                   get_game_requirements(games_db[a], game_name)
                       = get_game_requirements(GAMES_DATABASE, game_name)

\* The analyzer just extended by add_game returns the entry added, as long
\* as `counted' holds of its data dict.
AddedEntryReturned(counted(_)) ==
    (call # None /\ call.op = "add_game" /\ counted(call.requirements)) =>
        get_game_requirements(games_db[call.analyzer], call.name)
            = RequirementsOf(call.name, call.requirements)

AnyDict(requirements) == TRUE
NonEmptyDict(requirements) == requirements # EmptyDict

\* The frame part of C25: extending one analyzer changes neither the
\* module-level table nor what the other analyzers return, and an entry
\* added with a non-empty data dict is returned.
CatalogExtensionWithData ==
    BuiltInUntouched /\ AddedEntryReturned(NonEmptyDict)

\* C25: extending the game catalog never mutates the shared built-in
\* table: after any sequence of add_game calls or custom-database loads on
\* one analyzer, GAMES_DATABASE has the same keys and values as before and
\* every other analyzer (one created afterwards included) returns the same
\* get_game_requirements results as before, while the extended analyzer
\* returns the new entry.
C25_CatalogExtension ==
    BuiltInUntouched /\ AddedEntryReturned(AnyDict)

\* add_game("Ring", {}) was called on an analyzer, another analyzer still
\* holds the built-in table, and a lookup of "Ring" on the extended one has
\* returned the requirements of Elden Ring.
C25_Witness ==
    /\ call # None
    /\ call.op = "get_game_requirements"
    /\ call.game_name = "Ring"
    /\ pc[call.analyzer] = "extended"
    /\ \E k \in 1..Len(games_db[call.analyzer]) :
           games_db[call.analyzer][k] = Entry("Ring", EmptyDict)
    /\ \E b \in Analyzers : pc[b] = "built_in" /\ games_db[b] = GAMES_DATABASE
    /\ ret.found
    /\ ret.name = "Elden Ring"

\* fps_average at every grid position (in the order of GridRes and
\* GridPreset) for the search call c: the baseline of the game and the
\* index of the processor, resolved once, times the two factors of the
\* position.
SearchAverages(c) ==
    CHOOSE averages \in
        {[k \in 1..GridSize |->
             fps_average(predicted_fps(base_fps, gpu_index,
                             get_resolution_multiplier(GridRes(k)),
                             get_quality_multiplier(GridPreset(k))))] :
            base_fps \in {get_game_base_fps(c.game_name)},
            gpu_index \in {get_gpu_performance_index(c.gpu_info.name)}} :
        TRUE

\* The grid position of the pair result r names.
PositionOf(r) ==
    CHOOSE k \in 1..GridSize :
        GridRes(k) = r.resolution /\ GridPreset(k) = r.quality_preset

\* A performance-priority search has returned and some grid combination
\* reaches its target.
PerformanceSearchWithHit(averages) ==
    /\ Returned("find_optimal_settings")
    /\ ~call.prefer_quality
    /\ \E k \in 1..GridSize : averages[k] >= call.target_fps

\* Result r has the highest average of the combinations reaching target.
HasMaximumAverage(r, averages, target) ==
    /\ r.prediction.fps_average >= target
    /\ \A k \in 1..GridSize :
           averages[k] >= target => averages[k] <= r.prediction.fps_average

\* Result r is the last combination of the reversed scan that reaches the
\* target: it reaches it, and no combination of a higher resolution, or
\* of its resolution and a higher quality, does.
IsLastReaching(r, averages, target) ==
    /\ r.prediction.fps_average = averages[PositionOf(r)]
    /\ averages[PositionOf(r)] >= target
    /\ \A k \in 1..(PositionOf(r) - 1) : averages[k] < target

Observed(r) ==
    [resolution |-> r.resolution, quality_preset |-> r.quality_preset,
     prediction |-> r.prediction, warned |-> "warning" \in DOMAIN r]

\* The search of call c in the other mode.
OtherMode(c) ==
    find_optimal_settings_run(games_db, c.gpu_info, c.game_name,
                              c.target_fps, ~c.prefer_quality)

C28_FallbackIffLowestMisses ==
    Returned("find_optimal_settings") =>
        \E averages \in {SearchAverages(call)} :
            /\ GridRes(GridSize) = "1280x720"
            /\ GridPreset(GridSize) = "low"
            /\ \A k \in 1..GridSize : averages[k] <= averages[GridSize]
            /\ ("warning" \in DOMAIN ret)
                   <=> (averages[GridSize] < call.target_fps)

\* A search for 120 frames per second on an unknown processor and game, whose
\* 1280x720 low average is 108, has returned that combination with a warning.
C28_Witness ==
    /\ Returned("find_optimal_settings")
    /\ call.target_fps = 120
    /\ call.gpu_info.name = "Unknown GPU XYZ"
    /\ call.game_name = "Unknown Title 2099"
    /\ SearchAverages(call)[GridSize] = 108
    /\ "warning" \in DOMAIN ret
    /\ ret.prediction.fps_average = 108

-----------------------------------------------------------------------------
(* C29: the order of the performance index table.                          *)

\* Item i's pattern contains item j's pattern as a substring, the two being
\* different items.
PatternContains(i, j) ==
    i # j /\ Contains(GpuModelUpper[j], GpuModelUpper[i])

\* Every pattern that contains another pattern comes before it in the table.
SpecificPatternsFirst ==
    \A i, j \in 1..Len(GPU_PERFORMANCE_INDEX) : PatternContains(i, j) => i < j

\* The items whose pattern the name is, alone or after the vendor prefix.
NamedPatterns(gpu_name) ==
    {i \in 1..Len(GPU_PERFORMANCE_INDEX) :
        gpu_name \in {GPU_PERFORMANCE_INDEX[i].name,
                      "NVIDIA GeForce " \o GPU_PERFORMANCE_INDEX[i].name}}

\* C29: resolving a name that is a pattern of the table, alone or after the
\* prefix "NVIDIA GeForce ", returns that pattern's own multiplier, and every
\* pattern of the table that contains another pattern precedes it.
C29_MostSpecificPatternWins ==
    Returned("_get_gpu_performance_index") =>
        /\ SpecificPatternsFirst
        /\ \A i \in NamedPatterns(call.gpu_name) :
               ret = FromRatio(GPU_PERFORMANCE_INDEX[i].value, 100)

\* The index has been resolved for the vendor-prefixed name of a pattern
\* that contains two shorter patterns of the table, and is that pattern's.
C29_Witness ==
    /\ Returned("_get_gpu_performance_index")
    /\ call.gpu_name = "NVIDIA GeForce RTX 4070 TI SUPER"
    /\ \E i \in NamedPatterns(call.gpu_name) :
           /\ Cardinality({j \in 1..Len(GPU_PERFORMANCE_INDEX) :
                              PatternContains(i, j)}) = 2
           /\ ret = FromRatio(GPU_PERFORMANCE_INDEX[i].value, 100)
    /\ ret = FromRatio(195, 100)

-----------------------------------------------------------------------------
(* GPUMonitor.start_monitoring and the GPUDetector it reads.               *)
(*                                                                         *)
(* In this specification pc is the position of start_monitoring, and call  *)
(* holds the monitor (self, with its detector and its session), the        *)
(* arguments and locals of the running call, and the status the driver     *)
(* reports at the moment (hardware).  A GPUInfo is its status fields: the  *)
(* others are constants of the board.  ret, predict_calls and games_db are *)
(* not used.                                                               *)

MaxSamples == 3

Temperatures == {45, 80}
Usages == {10, 95}

\* What the driver reports for one board at a moment.
GpuStatuses == [temperature : Temperatures, gpu_usage : Usages]

\* The boards the driver reports: none, or one with a status.
Hardware == {<< >>} \cup {<<status>> : status \in GpuStatuses}

\* GPUDetector()
GPUDetector == [_initialized |-> FALSE, _gpus |-> << >>]

\* detector.initialize(), a detection library being available.
initialize(detector) == [detector EXCEPT !._initialized = TRUE]

\* detector.shutdown()
shutdown(detector) == [detector EXCEPT !._initialized = FALSE]

\* detector.detect_gpus(): the list is emptied and filled with what the
\* driver reports now.
detect_gpus(detector, hardware) ==
    [(IF ~detector._initialized THEN initialize(detector) ELSE detector)
        EXCEPT !._gpus = hardware]

\* detector.get_primary_gpu(): the detector after the call, what the call
\* returns, and whether it ran detect_gpus.
get_primary_gpu(detector, hardware) ==
    LET detected == detector._gpus = << >>
        after == IF detected THEN detect_gpus(detector, hardware)
                 ELSE detector
    IN  [detector |-> after,
         gpu_info |-> IF after._gpus # << >> THEN after._gpus[1] ELSE None,
         detected |-> detected]

\* GPUMetrics(temperature=gpu_info.temperature, ...), without its timestamp.
GPUMetrics(gpu_info) ==
    [temperature |-> gpu_info.temperature, gpu_usage |-> gpu_info.gpu_usage]

\* GPUMonitor()
GPUMonitor ==
    [detector |-> GPUDetector, _monitoring |-> FALSE,
     _current_session |-> None]

\* MonitoringSession(start_time=..., gpu_name="")
MonitoringSession == [metrics_history |-> << >>]

MonitorInit ==
    /\ pc = "idle"
    /\ \E hardware \in Hardware :
           call = [op |-> "__init__", self |-> GPUMonitor,
                   hardware |-> hardware]
    /\ ret = None
    /\ predict_calls = << >>
    /\ games_db = GAMES_DATABASE

\* The finally block of start_monitoring.
Finally(self) ==
    [self EXCEPT !._monitoring = FALSE, !.detector = shutdown(@)]

\* monitor.start_monitoring(duration): up to the loop when the detector
\* initializes, and back at once when it does not.
StartMonitoring ==
    /\ pc \in {"idle", "done"}
    /\ \E available \in BOOLEAN, duration \in {0, 10} :
           IF ~available
           THEN /\ pc' = "done"
                /\ call' = [op |-> "start_monitoring", self |-> call.self,
                            hardware |-> call.hardware, duration |-> duration,
                            gpu_info |-> None, detected |-> FALSE]
           ELSE /\ pc' = "loop"
                /\ call' = [op |-> "start_monitoring",
                            self |-> [call.self EXCEPT
                                         !.detector = initialize(@),
                                         !._monitoring = TRUE,
                                         !._current_session =
                                             MonitoringSession],
                            hardware |-> call.hardware, duration |-> duration,
                            gpu_info |-> None, detected |-> FALSE]
    /\ UNCHANGED <<ret, predict_calls, games_db>>

\* The loop ends: self._monitoring is false, or the duration has elapsed.
LoopExit ==
    /\ pc = "loop"
    /\ \E elapsed \in BOOLEAN :
           /\ ~call.self._monitoring \/ (call.duration # 0 /\ elapsed)
           /\ call' = [call EXCEPT !.self = Finally(@)]
    /\ pc' = "done"
    /\ UNCHANGED <<ret, predict_calls, games_db>>

\* One iteration of the loop up to time.sleep: the primary board is asked
\* of the detector and, when there is one, its metrics are appended to the
\* session.
Iteration ==
    /\ pc = "loop"
    /\ call.self._monitoring
    /\ Len(call.self._current_session.metrics_history) < MaxSamples
    /\ LET got == get_primary_gpu(call.self.detector, call.hardware)
       IN  call' = [call EXCEPT
                       !.self.detector = got.detector,
                       !.gpu_info = got.gpu_info,
                       !.detected = got.detected,
                       !.self._current_session.metrics_history =
                           IF got.gpu_info # None
                           THEN Append(@, GPUMetrics(got.gpu_info))
                           ELSE @]
    /\ pc' = "sleep"
    /\ UNCHANGED <<ret, predict_calls, games_db>>

\* time.sleep(self.refresh_rate): the board's status is whatever it has
\* become when the loop goes on.
Sleep ==
    /\ pc = "sleep"
    /\ \E hardware \in Hardware : call' = [call EXCEPT !.hardware = hardware]
    /\ pc' = "loop"
    /\ UNCHANGED <<ret, predict_calls, games_db>>

\* monitor.stop_monitoring(), from a callback or another thread.
StopMonitoring ==
    /\ pc \in {"loop", "sleep"}
    /\ call.self._monitoring
    /\ call' = [call EXCEPT !.self._monitoring = FALSE]
    /\ UNCHANGED <<pc, ret, predict_calls, games_db>>

\* Ctrl+C during the sleep: the exception is swallowed and the finally block
\* runs.
KeyboardInterrupt ==
    /\ pc = "sleep"
    /\ call' = [call EXCEPT !.self = Finally(@)]
    /\ pc' = "done"
    /\ UNCHANGED <<ret, predict_calls, games_db>>

MonitorNext ==
    \/ StartMonitoring
    \/ LoopExit
    \/ Iteration
    \/ Sleep
    \/ StopMonitoring
    \/ KeyboardInterrupt

MonitorSpec == MonitorInit /\ [][MonitorNext]_vars

\* An iteration has just appended a sample.
SampleAppended == pc = "sleep" /\ call.gpu_info # None

\* The samples of the session, and the last of them.
MetricsHistory == call.self._current_session.metrics_history
LastSample == MetricsHistory[Len(MetricsHistory)]

\* Every sample of a session is the status of the board the detector holds
\* in its list: the one of the first detection that found a board.
SamplesReplayDetectorList ==
    (pc \in {"loop", "sleep"}) =>
        \A k \in 1..Len(MetricsHistory) :
            /\ call.self.detector._gpus # << >>
            /\ MetricsHistory[k] = GPUMetrics(call.self.detector._gpus[1])

\* C30: an iteration that appends a sample has run a detection itself, and
\* the sample is the status the driver reports in that iteration.
C30_SamplesAreFresh ==
    SampleAppended =>
        /\ call.detected
        /\ call.hardware # << >>
        /\ LastSample = GPUMetrics(call.hardware[1])

\* A second sample has just been appended without a detection: it repeats
\* the first one, while the driver reports another status.
C30_Witness ==
    /\ SampleAppended
    /\ Len(MetricsHistory) = 2
    /\ ~call.detected
    /\ MetricsHistory[2] = MetricsHistory[1]
    /\ call.hardware # << >>
    /\ GPUMetrics(call.hardware[1]) # LastSample

=============================================================================
